---- MODULE Spec2Model ----
(***************************************************************************)
(* Model of the page codecs, the XTC container builder and the transfer    *)
(* queue of openxteailink (src/src/conversion_service.py,                  *)
(* src/src/xtc_encoder.py, src/src/book_transfer_service.py,               *)
(* src/src/web_server.py, src/src/mcp/mcp_server.py).                      *)
(*                                                                         *)
(* A byte string is a sequence of integers 0..255.  Python offsets are     *)
(* 0-based; sequence positions are 1-based, so byte k of a Python string   *)
(* is element k+1 of the sequence.                                         *)
(*                                                                         *)
(* The specifications share the variables:                                 *)
(*   Spec          - build_xtc_from_page_blobs on a list of page blobs     *)
(*   SpecMono      - the three mono (XTG) encoders on one page image       *)
(*   SpecPipeline  - the page renderer and convert_png_folder_to_xtc       *)
(*   SpecGray      - XTHWriter.encode called on one writer object          *)
(*   SpecEncoders  - SpecMono and SpecGray together                        *)
(*   SpecDither    - the Floyd-Steinberg loop of XTHWriter, pixel by pixel *)
(*   SpecFitPad    - the page layout of convert_pdf_to_png_pure            *)
(*   SpecXTCWriter - XTCWriter.write                                       *)
(*   SpecQueue     - data/queue.json under the threads of the web server   *)
(*   SpecUpload    - the retry loop of BookTransferService.upload_file     *)
(***************************************************************************)
EXTENDS Integers, Sequences, FiniteSets, TLC

VARIABLES
    page_blobs,   \* build_xtc_from_page_blobs: the page_blobs argument
    out_file,     \* the bytes at out_path, or NoFile
    result,       \* "none" before the call, "ok" on return, "error" when it raised
    page,         \* mono encoders: the single-channel image that is thresholded
    src_size,     \* mono encoders: size of the image handed to the encoder
    threshold,    \* mono encoders: the threshold argument
    encoder,      \* mono encoders: which encoder produced blob
    blob,         \* mono encoders: the bytes returned / written
    png_dir,      \* pipeline: the PNG folder, file name -> content
    xtc_out,      \* pipeline: output_path, [written, blobs]
    ret,          \* pipeline: "none", or what convert_png_folder_to_xtc returned
    writer,       \* gray encoder: the XTHWriter object's fields
    pixel_values, \* gray encoder: the levels handed to _encode_bitplanes
    calls,        \* gray encoder: encode calls made on the writer so far
    prev_blob,    \* gray encoder: what the call before the last one returned
    fs_working,   \* dither loop: the working array, indexed by y * width + x
    fs_result,    \* dither loop: the result array, indexed by y * width + x
    fs_pos,       \* dither loop: -1 outside the loop, else the index of the next pixel
    fit_src,      \* renderer: (rect.width, rect.height) of the page being rendered, <<>> before
    fit_layout,   \* renderer: where the rendered page was pasted on the canvas
    xtcw_args,    \* XTCWriter.write: [metadata, chapters], whether metadata was passed and how many chapters
    xtcw_ret,     \* XTCWriter.write: [called, raised, bytes], the outcome of the call
    queue_file,   \* queue: the list stored in data/queue.json
    files,        \* queue: the paths that exist under data/pending_books and data/notes
    uploads,      \* queue: path -> number of POSTs for it that the device answered with 200
    thread,       \* queue: thread -> where it is in its handler and the handler's locals
    next_id,      \* queue: the next fresh uuid4
    appended,     \* queue: ids whose append has been saved to the queue file
    removed,      \* queue: ids removed by delete, clear or the post-transfer clean-up
    books_supported,
                  \* queue: whether config supported_formats holds the suffix of the uploads
    refused,      \* queue: whether the device has refused or failed a POST so far
    ops,          \* queue: requests and worker rounds started so far
    max_retries,  \* upload_file: config transfer.retry.max_retries
    attempt,      \* upload_file: the loop variable of for attempt in range(max_retries)
    responses,    \* upload_file: how each attempt made so far ended
    upload_ret    \* upload_file: none before the call, running inside it, else the value returned

vars == <<page_blobs, out_file, result, page, src_size, threshold, encoder, blob,
          png_dir, xtc_out, ret, writer, pixel_values, calls, prev_blob,
          fs_working, fs_result, fs_pos,
          fit_src, fit_layout,
          xtcw_args, xtcw_ret,
          queue_file, files, uploads, thread, next_id, appended, removed,
          books_supported, refused, ops,
          max_retries, attempt, responses, upload_ret>>

builderVars == <<page_blobs, out_file, result>>
monoVars == <<page, src_size, threshold, encoder, blob>>
pipelineVars == <<png_dir, xtc_out, ret>>
grayVars == <<writer, pixel_values, calls, prev_blob>>
ditherVars == <<fs_working, fs_result, fs_pos>>
fitVars == <<fit_src, fit_layout>>
xtcwVars == <<xtcw_args, xtcw_ret>>
queueVars == <<queue_file, files, uploads, thread, next_id, appended, removed,
              books_supported, refused, ops>>
retryVars == <<max_retries, attempt, responses, upload_ret>>

\* no file at the path (no byte is negative, so no byte string equals it)
NoFile == <<-1>>

\* no XTHWriter has been constructed
NoWriter == [width |-> 0, height |-> 0, thresholds |-> <<0, 0, 0>>, dither |-> FALSE]

\* no page has been rendered
NoLayout == [render_width |-> 0, render_height |-> 0, zoom |-> <<0, 1>>,
             paste_x |-> 0, paste_y |-> 0, canvas |-> <<0, 0>>]

\* XTCWriter.write has not been called
NoArgs == [metadata |-> FALSE, chapters |-> 0]
NoCall == [called |-> FALSE, raised |-> FALSE, bytes |-> <<>>]

\* output_path of the pipeline before anything was written to it
NoOutput == [written |-> FALSE, blobs |-> <<>>]

\* the queue, its directories and the threads of the web server are not in use
NoUploads == <<>>
NoThreads == <<>>
QueueUnused ==
    /\ queue_file = <<>> /\ files = {} /\ uploads = NoUploads /\ thread = NoThreads
    /\ next_id = 1 /\ appended = {} /\ removed = {}
    /\ books_supported = FALSE /\ refused = FALSE /\ ops = 0

\* BookTransferService.upload_file has not been called
RetryUnused ==
    /\ max_retries = 0 /\ attempt = 0 /\ responses = <<>> /\ upload_ret = "none"

(***************************************************************************)
(* struct.pack / struct.unpack_from with "<" (little-endian, no padding)   *)
(***************************************************************************)

\* n shifted right by w bytes
RECURSIVE ShiftBytes(_, _)
ShiftBytes(n, w) == IF w = 0 THEN n ELSE ShiftBytes(n \div 256, w - 1)

\* struct.pack raises struct.error unless 0 <= n < 2^(8w)
FitsUnsigned(n, w) == n >= 0 /\ ShiftBytes(n, w) = 0

\* the w bytes of n, least significant first (formats B, H, I, Q)
RECURSIVE pack_le(_, _)
pack_le(n, w) == IF w = 0 THEN <<>> ELSE <<n % 256>> \o pack_le(n \div 256, w - 1)

\* struct.unpack_from of a w-byte unsigned field at 0-based offset pos
RECURSIVE unpack_le(_, _, _)
unpack_le(s, pos, w) ==
    IF w = 0 THEN 0 ELSE s[pos + 1] + 256 * unpack_le(s, pos + 1, w - 1)

\* "<Ns" with a bytes argument: truncated or NUL-padded to exactly n bytes
pack_s(s, n) == [i \in 1..n |-> IF i <= Len(s) THEN s[i] ELSE 0]

Zeros(n) == [i \in 1..n |-> 0]

RECURSIVE SumLen(_, _)
SumLen(blobs, n) == IF n = 0 THEN 0 ELSE Len(blobs[n]) + SumLen(blobs, n - 1)

RECURSIVE Concat(_)
Concat(blobs) == IF blobs = <<>> THEN <<>> ELSE Head(blobs) \o Concat(Tail(blobs))

(***************************************************************************)
(* build_xtc_from_page_blobs                                               *)
(***************************************************************************)

header_size == 48
index_entry_size == 16
index_offset == header_size
U16Max == 65535

XTC_MARK == <<88, 84, 67, 0>>      \* b"XTC\x00"
XTC_VERSION == 256                 \* 0x0100

\* fault variant: entries counted as 24 bytes
data_offset_buggy(page_count) == index_offset + page_count * (index_entry_size + 8)
\* data_offset = index_offset + page_count * index_entry_size
data_offset(page_count) == index_offset + page_count * index_entry_size

\* fault variant: rel_offset is not advanced
RECURSIVE index_table_stale(_, _)
index_table_stale(blobs, rel_offset) ==
    IF blobs = <<>> THEN <<>>
    ELSE LET b == Head(blobs)
             w == unpack_le(b, 4, 2)
             h == unpack_le(b, 6, 2)
         IN  pack_le(rel_offset, 8) \o pack_le(Len(b), 4) \o pack_le(w, 2) \o pack_le(h, 2)
             \o index_table_stale(Tail(blobs), rel_offset)
\* fault variant: height packed before width
RECURSIVE index_table_swapped(_, _)
index_table_swapped(blobs, rel_offset) ==
    IF blobs = <<>> THEN <<>>
    ELSE LET b == Head(blobs)
             w == unpack_le(b, 4, 2)
             h == unpack_le(b, 6, 2)
         IN  pack_le(rel_offset, 8) \o pack_le(Len(b), 4) \o pack_le(h, 2) \o pack_le(w, 2)
             \o index_table_swapped(Tail(blobs), rel_offset + Len(b))
\* the loop over page_blobs that packs one "<Q I H H" entry per blob
RECURSIVE index_table(_, _)
index_table(blobs, rel_offset) ==
    IF blobs = <<>> THEN <<>>
    ELSE LET b == Head(blobs)
             w == unpack_le(b, 4, 2)
             h == unpack_le(b, 6, 2)
         IN  pack_le(rel_offset, 8) \o pack_le(Len(b), 4) \o pack_le(w, 2) \o pack_le(h, 2)
             \o index_table(Tail(blobs), rel_offset + Len(b))

\* fault variant: pageCount one short
xtc_header_short_count(page_count, read_direction) ==
    pack_s(XTC_MARK, 4) \o pack_le(XTC_VERSION, 2) \o pack_le(page_count - 1, 2)
    \o pack_le(read_direction, 1) \o pack_le(0, 1) \o pack_le(0, 1) \o pack_le(0, 1)
    \o pack_le(0, 4) \o pack_le(0, 8) \o pack_le(index_offset, 8)
    \o pack_le(data_offset(page_count), 8) \o pack_le(0, 8)
\* struct.pack("<4sHHBBBBIQQQQ", ...)
xtc_header(page_count, read_direction) ==
    pack_s(XTC_MARK, 4) \o pack_le(XTC_VERSION, 2) \o pack_le(page_count, 2)
    \o pack_le(read_direction, 1) \o pack_le(0, 1) \o pack_le(0, 1) \o pack_le(0, 1)
    \o pack_le(0, 4) \o pack_le(0, 8) \o pack_le(index_offset, 8)
    \o pack_le(data_offset(page_count), 8) \o pack_le(0, 8)

\* the conditions under which a struct call raises struct.error; every one of
\* them is evaluated before open(out_path, "wb")
build_raises(blobs, read_direction) ==
    \/ \E i \in 1..Len(blobs) : Len(blobs[i]) < 8             \* unpack_from("<HH", blob, 4)
    \/ \E i \in 1..Len(blobs) : ~FitsUnsigned(Len(blobs[i]), 4)  \* "I" of the entry
    \/ ~FitsUnsigned(Len(blobs), 2)                           \* "H" pageCount
    \/ ~FitsUnsigned(read_direction, 1)                       \* "B" readDirection

\* the three writes: header, index table, every blob in list order
xtc_bytes(blobs, read_direction) ==
    xtc_header(Len(blobs), read_direction)
    \o index_table(blobs, data_offset(Len(blobs)))
    \o Concat(blobs)

\* fault variant: the file is opened and the mark written before the index is built
written_partial(blobs, read_direction, old) ==
    IF build_raises(blobs, read_direction)
    THEN pack_s(XTC_MARK, 4)
    ELSE xtc_bytes(blobs, read_direction)
\* what out_path holds after the call, given what it held before
written(blobs, read_direction, old) ==
    IF build_raises(blobs, read_direction) THEN old ELSE xtc_bytes(blobs, read_direction)

(***************************************************************************)
(* Page images.  An image is [w, h, px] with px[y][x] the single-channel   *)
(* value of pixel (x, y), 0-based; it stands for the image the encoder     *)
(* thresholds, i.e. after the library calls resize() and convert("L").     *)
(***************************************************************************)

Dark == 50
Bright == 200

MkImage(w, h, lit) ==
    [w |-> w, h |-> h,
     px |-> [y \in 0..(h - 1) |-> [x \in 0..(w - 1) |->
                IF <<x, y>> \in lit THEN Bright ELSE Dark]]]

\* the 2x1 image with pixel values [200, 50]
ScenarioBImage == MkImage(2, 1, {<<0, 0>>})

(***************************************************************************)
(* Mono page codec                                                         *)
(***************************************************************************)

XTG_MARK == <<88, 84, 71, 0>>      \* b"XTG\x00"
XTG_MAGIC == 4674648               \* XTGWriter.MAGIC = 0x00475458

BitOf(b, i) == (b \div (2 ^ i)) % 2

\* data[byte_index] |= (1 << bit_index)
OrBit(b, i) == IF BitOf(b, i) = 1 THEN b ELSE b + 2 ^ i

\* hashlib.md5(data).digest(): a library call; a fixed 16-byte function of the
\* data stands for it
RECURSIVE md5_mix(_, _, _)
md5_mix(data, k, i) ==
    IF i = 0 THEN Len(data) + 7 * k
    ELSE ((i + k) * data[i] + 3 * md5_mix(data, k, i - 1)) % 256
md5(data) == [k \in 1..16 |-> md5_mix(data, k, Len(data)) % 256]

\* fault variant: one more byte than the full bytes of a row
row_bytes_plus_one(w) == (w \div 8) + 1
\* row_bytes = (w + 7) // 8
row_bytes(w) == (w + 7) \div 8

\* fault variant: least-significant bit first
RECURSIVE xtg_pack_lsb(_, _, _, _)
xtg_pack_lsb(img, t, data, p) ==
    IF p = img.w * img.h THEN data
    ELSE LET y == p \div img.w
             x == p % img.w
             bit == IF img.px[y][x] >= t THEN 1 ELSE 0
             byte_index == y * row_bytes(img.w) + (x \div 8)
             bit_index == x % 8
         IN  xtg_pack_lsb(img, t,
                      IF bit = 1
                      THEN [data EXCEPT ![byte_index + 1] = OrBit(@, bit_index)]
                      ELSE data,
                      p + 1)
\* the pixel loop of png_to_xtg_bytes / png_to_xtg_file, pixel p = y * w + x
RECURSIVE xtg_pack(_, _, _, _)
xtg_pack(img, t, data, p) ==
    IF p = img.w * img.h THEN data
    ELSE LET y == p \div img.w
             x == p % img.w
             bit == IF img.px[y][x] >= t THEN 1 ELSE 0
             byte_index == y * row_bytes(img.w) + (x \div 8)
             bit_index == 7 - (x % 8)
         IN  xtg_pack(img, t,
                      IF bit = 1
                      THEN [data EXCEPT ![byte_index + 1] = OrBit(@, bit_index)]
                      ELSE data,
                      p + 1)

\* data = bytearray(row_bytes * h), then the loop
xtg_data(img, t) == xtg_pack(img, t, Zeros(row_bytes(img.w) * img.h), 0)

\* struct.pack("<4sHHBBI8s", b"XTG\x00", w, h, 0, 0, data_size, md5digest)
xtg_header(w, h, data) ==
    pack_s(XTG_MARK, 4) \o pack_le(w, 2) \o pack_le(h, 2) \o pack_le(0, 1) \o pack_le(0, 1)
    \o pack_le(Len(data), 4) \o pack_s(SubSeq(md5(data), 1, 8), 8)

\* png_to_xtg_bytes, from "w, h = img.size" on
png_to_xtg_bytes(img, t) == xtg_header(img.w, img.h, xtg_data(img, t)) \o xtg_data(img, t)

\* png_to_xtg_file: the same loop and header (w, h = force_size), written to a file
png_to_xtg_file(img, t) == xtg_header(img.w, img.h, xtg_data(img, t)) \o xtg_data(img, t)

\* XTGWriter.encode: bitmap = (image >= self.threshold).astype(np.uint8)
xtg_bitmap(img, t) ==
    [y \in 0..(img.h - 1) |-> [x \in 0..(img.w - 1) |->
        IF img.px[y][x] >= t THEN 1 ELSE 0]]

\* XTGWriter._encode_bitmap, pixel p = y * width + x
RECURSIVE encode_bitmap_loop(_, _, _, _, _)
encode_bitmap_loop(bitmap, width, height, res, p) ==
    IF p = width * height THEN res
    ELSE LET y == p \div width
             x == p % width
             bytes_per_row == (width + 7) \div 8
             byte_index == y * bytes_per_row + x \div 8
             bit_index == 7 - (x % 8)
         IN  encode_bitmap_loop(bitmap, width, height,
                      IF bitmap[y][x] # 0
                      THEN [res EXCEPT ![byte_index + 1] = OrBit(@, bit_index)]
                      ELSE res,
                      p + 1)
encode_bitmap(bitmap, width, height) ==
    encode_bitmap_loop(bitmap, width, height, Zeros(((width + 7) \div 8) * height), 0)

\* XTGWriter.encode from the thresholding on: struct.pack('<IHHBB8s', MAGIC,
\* width, height, 0, 0, checksum) with checksum the 16-byte digest
XTGWriter_encode(img, t) ==
    LET bitmap_data == encode_bitmap(xtg_bitmap(img, t), img.w, img.h)
        checksum == md5(bitmap_data)
    IN  pack_le(XTG_MAGIC, 4) \o pack_le(img.w, 2) \o pack_le(img.h, 2)
        \o pack_le(0, 1) \o pack_le(0, 1) \o pack_s(checksum, 8)
        \o bitmap_data

(***************************************************************************)
(* Spec: build_xtc_from_page_blobs called once on a caller-assembled list  *)
(***************************************************************************)

MaxPages == 3

\* what out_path may hold before the call
StaleFile == <<83, 84, 65, 76, 69>>

\* a byte string with a page-blob header (mark, width, height) and n bytes in all
RawBlob(n, w, h) == pack_s(XTG_MARK \o pack_le(w, 2) \o pack_le(h, 2), n)

\* 8 bytes with a foreign mark ("JUNK"), bytes 4..8 reading as 2 x 1
JunkBlob == <<74, 85, 78, 75, 2, 0, 1, 0>>

\* 3 bytes: too short to hold a width and height
TruncatedBlob == <<88, 84, 71>>

\* the blobs the caller picks from: two encoded mono pages, a bare 8-byte header,
\* a foreign blob and a truncated one
BlobChoices ==
    { png_to_xtg_bytes(ScenarioBImage, 168),
      png_to_xtg_bytes(MkImage(9, 2, {<<8, 1>>}), 168),
      RawBlob(8, 3, 5), JunkBlob, TruncatedBlob }

\* three blobs of lengths [118, 22, 5022]
ScenarioCBlobs == <<RawBlob(118, 24, 32), RawBlob(22, 0, 0), RawBlob(5022, 200, 200)>>

\* a list one longer than the u16 pageCount field can count
LongBlobList == [i \in 1..(U16Max + 1) |-> JunkBlob]

ReadDirections == {0, 2}

Init ==
    /\ page_blobs = <<>>
    /\ out_file \in {NoFile, StaleFile}
    /\ result = "none"
    /\ page = MkImage(1, 1, {}) /\ src_size = <<1, 1>> /\ threshold = 0
    /\ encoder = "none" /\ blob = <<>>
    /\ png_dir = <<>> /\ xtc_out = NoOutput /\ ret = "none"
    /\ writer = NoWriter /\ pixel_values = <<>> /\ calls = 0 /\ prev_blob = <<>>
    /\ fs_working = <<>> /\ fs_result = <<>> /\ fs_pos = -1
    /\ fit_src = <<>> /\ fit_layout = NoLayout
    /\ xtcw_args = NoArgs /\ xtcw_ret = NoCall
    /\ QueueUnused /\ RetryUnused

\* the caller appends one more page blob to the list it will pass
AppendBlob(b) ==
    /\ result = "none"
    /\ Len(page_blobs) < MaxPages
    /\ page_blobs' = Append(page_blobs, b)
    /\ UNCHANGED <<out_file, result, monoVars, pipelineVars, grayVars, ditherVars, fitVars, xtcwVars, queueVars, retryVars>>

\* the caller passes a whole list at once
PassList(l) ==
    /\ result = "none"
    /\ page_blobs = <<>>
    /\ page_blobs' = l
    /\ UNCHANGED <<out_file, result, monoVars, pipelineVars, grayVars, ditherVars, fitVars, xtcwVars, queueVars, retryVars>>

\* build_xtc_from_page_blobs(page_blobs, out_path, read_direction=rd)
Build(rd) ==
    /\ result = "none"
    /\ out_file' = written(page_blobs, rd, out_file)
    /\ result' = IF build_raises(page_blobs, rd) THEN "error" ELSE "ok"
    /\ UNCHANGED <<page_blobs, monoVars, pipelineVars, grayVars, ditherVars, fitVars, xtcwVars, queueVars, retryVars>>

Next ==
    \/ \E b \in BlobChoices : AppendBlob(b)
    \/ \E l \in {ScenarioCBlobs, LongBlobList} : PassList(l)
    \/ \E rd \in ReadDirections : Build(rd)

Spec == Init /\ [][Next]_vars

(***************************************************************************)
(* A reader's view of a container file f                                   *)
(***************************************************************************)

hdr_pageCount(f) == unpack_le(f, 6, 2)
hdr_indexOffset(f) == unpack_le(f, 24, 8)
hdr_dataOffset(f) == unpack_le(f, 32, 8)

\* index entry i (0-based) of f: 16 bytes at indexOffset + 16 i
entry_offset(f, i) == unpack_le(f, hdr_indexOffset(f) + 16 * i, 8)
entry_length(f, i) == unpack_le(f, hdr_indexOffset(f) + 16 * i + 8, 4)
entry_width(f, i) == unpack_le(f, hdr_indexOffset(f) + 16 * i + 12, 2)
entry_height(f, i) == unpack_le(f, hdr_indexOffset(f) + 16 * i + 14, 2)

\* the number of 16-byte entries between the index offset and the data offset
index_entries(f) == (hdr_dataOffset(f) - hdr_indexOffset(f)) \div 16

Built == result = "ok"
N == Len(page_blobs)
Lengths == [i \in 1..N |-> Len(page_blobs[i])]

\* C1: in every container written from N >= 1 blobs the index table has exactly
\* N entries, each entry's offset + length is the next entry's offset, and the
\* last entry's range ends exactly at end-of-file.
C1_IndexConsistency ==
    (Built /\ N >= 1) =>
        /\ index_entries(out_file) = N
        /\ hdr_dataOffset(out_file) - hdr_indexOffset(out_file) = 16 * N
        /\ \A i \in 0..(N - 2) :
              entry_offset(out_file, i) + entry_length(out_file, i)
                  = entry_offset(out_file, i + 1)
        /\ entry_offset(out_file, N - 1) + entry_length(out_file, N - 1) = Len(out_file)

C1_Witness ==
    /\ Built /\ N = 3
    /\ Len(page_blobs[1]) # Len(page_blobs[2])
    /\ Len(page_blobs[2]) # Len(page_blobs[3])

\* C2: the header records indexOffset = 48 and dataOffset = 48 + 16 * pageCount,
\* entry i records offset = dataOffset + the lengths of blobs 0..i-1, the first
\* blob starts right after the 48-byte header and the 16-byte entries, and blobs
\* of lengths [118, 22, 5022] give dataOffset 96, offsets [96, 214, 236] and a
\* file of 96 + 5162 bytes.
C2_Offsets ==
    Built =>
        /\ hdr_indexOffset(out_file) = 48
        /\ hdr_dataOffset(out_file) = 48 + 16 * hdr_pageCount(out_file)
        /\ \A i \in 0..(N - 1) :
              entry_offset(out_file, i) = hdr_dataOffset(out_file) + SumLen(page_blobs, i)
        /\ Len(out_file) = 48 + 16 * N + SumLen(page_blobs, N)
        /\ N >= 1 => SubSeq(out_file, 48 + 16 * N + 1, 48 + 16 * N + Len(page_blobs[1]))
                        = page_blobs[1]
        /\ Lengths = <<118, 22, 5022>> =>
              /\ hdr_dataOffset(out_file) = 96
              /\ [i \in 1..3 |-> entry_offset(out_file, i - 1)] = <<96, 214, 236>>
              /\ Len(out_file) = 96 + 5162

C2_Witness == Built /\ Lengths = <<118, 22, 5022>>

\* C4: for every index entry i of a written container, the bytes in
\* [offset_i, offset_i + length_i) are exactly blob i, and the entry's width and
\* height equal the ones at bytes 4..8 of that blob.
C4_EntriesDescribeBlobs ==
    Built =>
        \A i \in 0..(N - 1) :
            LET off == entry_offset(out_file, i)
                len == entry_length(out_file, i)
                b   == SubSeq(out_file, off + 1, off + len)
            IN  /\ b = page_blobs[i + 1]
                /\ entry_width(out_file, i) = unpack_le(b, 4, 2)
                /\ entry_height(out_file, i) = unpack_le(b, 6, 2)

C4_Witness ==
    /\ Built /\ N >= 2
    /\ unpack_le(page_blobs[1], 4, 2) # unpack_le(page_blobs[1], 6, 2)
    /\ page_blobs[1] # page_blobs[2]

\* C5: the header's pageCount equals the number of index entries and the number
\* of blobs written after the index, for every list for which a file is
\* produced; a list too long for the 16-bit field produces no file.
C5_PageCount ==
    /\ Built =>
          /\ hdr_pageCount(out_file) = N
          /\ hdr_pageCount(out_file) = index_entries(out_file)
          /\ SubSeq(out_file, hdr_dataOffset(out_file) + 1, Len(out_file))
                = Concat(page_blobs)
    /\ (result # "none" /\ N > U16Max) =>
          (result = "error" /\ out_file \in {NoFile, StaleFile})

C5_Witness == Built /\ N = 3 /\ hdr_pageCount(out_file) = 3

\* C6: called with an empty list, the builder signals an error and writes no
\* container with pageCount = 0.
C6_EmptyPageSet ==
    (result # "none" /\ N = 0) =>
        (result = "error" /\ out_file \in {NoFile, StaleFile})

MaxRender == 8
BigDocument == 10001
MaxDamaged == 3
MaxResaved == 2

\* force_size=(480, 800), the canvas of the renderer and of the encoders
force_size == <<480, 800>>

\* a size an image saved into the folder by something else may have
OtherSize == <<300, 200>>

RECURSIVE DecimalDigits(_)
DecimalDigits(n) ==
    IF n < 10 THEN <<48 + n>> ELSE Append(DecimalDigits(n \div 10), 48 + (n % 10))

\* format spec "04d": zero-padded on the left to at least 4 characters
RECURSIVE ZeroPad4(_)
ZeroPad4(s) == IF Len(s) >= 4 THEN s ELSE ZeroPad4(<<48>> \o s)

\* f"page-{page_num:04d}.png"
PageFileName(page_num) ==
    <<112, 97, 103, 101, 45>> \o ZeroPad4(DecimalDigits(page_num)) \o <<46, 112, 110, 103>>

\* str < str: the first differing character decides, a proper prefix is smaller
RECURSIVE StrLessFrom(_, _, _)
StrLessFrom(a, b, i) ==
    IF i > Len(b) THEN FALSE
    ELSE IF i > Len(a) THEN TRUE
    ELSE IF a[i] # b[i] THEN a[i] < b[i]
    ELSE StrLessFrom(a, b, i + 1)
PathLess(f, g) == StrLessFrom(f.name, g.name, 1)

\* sorted(png_dir.glob("page-*.png"))
sorted_glob(dir) == SortSeq(dir, PathLess)

\* png_to_xtg_bytes: "if img.size != force_size: img = img.resize(force_size)",
\* then "w, h = img.size" goes into the header
xtg_page_size(size, fs) == IF size # fs THEN fs ELSE size

\* png_to_xth_bytes: XTHWriter(width=force_size[0], height=force_size[1]); encode
\* resizes an array of another shape and packs self.width, self.height
xth_page_size(size, fs) == <<fs[1], fs[2]>>

\* fault variant: the mono header takes the size of the file's image
page_bytes_unsized(file, format_mode) ==
    LET wh == IF format_mode = "xtg" THEN file.size
              ELSE xth_page_size(file.size, force_size)
    IN  [fmt |-> IF format_mode = "xtg" THEN "XTG" ELSE "XTH",
         w |-> wh[1], h |-> wh[2], page |-> file.page]
\* png_to_xtg_bytes / png_to_xth_bytes with force_size=(480, 800)
page_bytes(file, format_mode) ==
    LET wh == IF format_mode = "xtg" THEN xtg_page_size(file.size, force_size)
              ELSE xth_page_size(file.size, force_size)
    IN  [fmt |-> IF format_mode = "xtg" THEN "XTG" ELSE "XTH",
         w |-> wh[1], h |-> wh[2], page |-> file.page]

\* fault variant: a file that cannot be encoded is skipped
encode_all_skipping(png_files, format_mode) ==
    [raised |-> FALSE,
     blobs |-> LET ok == SelectSeq(png_files, LAMBDA f : f.readable)
               IN  [k \in 1..Len(ok) |-> page_bytes(ok[k], format_mode)]]
\* the loop over png_files: Image.open and the encoder raise on a file that is
\* no readable image, and the exception leaves the loop
encode_all(png_files, format_mode) ==
    IF \E k \in 1..Len(png_files) : ~png_files[k].readable
    THEN [raised |-> TRUE, blobs |-> <<>>]
    ELSE [raised |-> FALSE,
          blobs |-> [k \in 1..Len(png_files) |-> page_bytes(png_files[k], format_mode)]]

\* convert_pdf_to_png_pure on a document of page_count pages, into an empty
\* folder; a rendering that raises at page k leaves the folder as a document of
\* k pages would
Render(page_count) ==
    /\ ret = "none"
    /\ png_dir = <<>>
    /\ page_count > 0
    /\ png_dir' = [k \in 1..page_count |->
                      [name |-> PageFileName(k - 1), page |-> k - 1, readable |-> TRUE,
                       size |-> force_size]]
    /\ UNCHANGED <<xtc_out, ret, builderVars, monoVars, grayVars, ditherVars, fitVars, xtcwVars, queueVars, retryVars>>

\* a file of the folder is truncated or overwritten with something that is no image
Damage(k) ==
    /\ ret = "none"
    /\ k \in 1..Len(png_dir)
    /\ png_dir[k].readable
    /\ png_dir' = [png_dir EXCEPT ![k].readable = FALSE]
    /\ UNCHANGED <<xtc_out, ret, builderVars, monoVars, grayVars, ditherVars, fitVars, xtcwVars, queueVars, retryVars>>

\* a file of the folder is replaced by an image of another size
Resave(k) ==
    /\ ret = "none"
    /\ k \in 1..Len(png_dir)
    /\ png_dir[k].size = force_size
    /\ png_dir' = [png_dir EXCEPT ![k].size = OtherSize]
    /\ UNCHANGED <<xtc_out, ret, builderVars, monoVars, grayVars, ditherVars, fitVars, xtcwVars, queueVars, retryVars>>

\* convert_png_folder_to_xtc(png_dir, output_path, format_mode)
Convert(format_mode) ==
    /\ ret = "none"
    /\ LET png_files == sorted_glob(png_dir)
           enc == encode_all(png_files, format_mode)
       IN  IF png_files = <<>> THEN
               ret' = "False" /\ xtc_out' = xtc_out
           ELSE IF enc.raised \/ ~FitsUnsigned(Len(enc.blobs), 2) THEN
               ret' = "False" /\ xtc_out' = xtc_out
           ELSE
               ret' = "True" /\ xtc_out' = [written |-> TRUE, blobs |-> enc.blobs]
    /\ UNCHANGED <<png_dir, builderVars, monoVars, grayVars, ditherVars, fitVars, xtcwVars, queueVars, retryVars>>

InitPipeline ==
    /\ png_dir = <<>> /\ xtc_out = NoOutput /\ ret = "none"
    /\ writer = NoWriter /\ pixel_values = <<>> /\ calls = 0 /\ prev_blob = <<>>
    /\ fs_working = <<>> /\ fs_result = <<>> /\ fs_pos = -1
    /\ fit_src = <<>> /\ fit_layout = NoLayout
    /\ xtcw_args = NoArgs /\ xtcw_ret = NoCall
    /\ QueueUnused /\ RetryUnused
    /\ page_blobs = <<>> /\ out_file = NoFile /\ result = "none"
    /\ page = MkImage(1, 1, {}) /\ src_size = <<1, 1>> /\ threshold = 0
    /\ encoder = "none" /\ blob = <<>>

NextPipeline ==
    \/ \E n \in (1..MaxRender) \cup {BigDocument} : Render(n)
    \/ \E k \in 1..MaxDamaged : Damage(k)
    \/ \E k \in 1..MaxResaved : Resave(k)
    \/ \E m \in {"xtg", "xth"} : Convert(m)

SpecPipeline == InitPipeline /\ [][NextPipeline]_vars

\* C3: in the container the pipeline writes, the k-th blob is the encoding of
\* the k-th rendered page, whatever the number of pages.
C3_PageOrder ==
    (ret = "True") =>
        \A k \in 1..Len(xtc_out.blobs) : xtc_out.blobs[k].page = k - 1

\* C7: if encoding any page fails, the call reports failure and writes no
\* container; a written container holds one blob for every file of the folder.
C7_FailedPageAborts ==
    /\ (ret # "none" /\ \E k \in 1..Len(png_dir) : ~png_dir[k].readable) =>
          (ret = "False" /\ xtc_out = NoOutput)
    /\ xtc_out.written => Len(xtc_out.blobs) = Len(png_dir)

C7_Witness ==
    /\ ret = "False"
    /\ Len(png_dir) >= 3
    /\ ~png_dir[2].readable
    /\ png_dir[1].readable /\ png_dir[3].readable

(***************************************************************************)
(* SpecMono: a mono encoder is called on one image, and then once more     *)
(* with the same arguments                                                 *)
(***************************************************************************)

MaxW == 9
MaxH == 2
MaxPixels == 6
MaxLit == 1

Positions(w, h) == (0..(w - 1)) \X (0..(h - 1))

\* the subsets of P with at most k elements
RECURSIVE UpTo(_, _)
UpTo(P, k) ==
    IF k = 0 THEN {{}}
    ELSE UpTo(P, k - 1) \cup {S \cup {q} : S \in UpTo(P, k - 1), q \in P}

\* every dark/bright image of at most MaxPixels pixels, and every image of up to
\* MaxW x MaxH pixels with at most MaxLit bright pixels
Images ==
    UNION { IF w * h <= MaxPixels
            THEN {MkImage(w, h, lit) : lit \in SUBSET Positions(w, h)}
            ELSE {MkImage(w, h, lit) : lit \in UpTo(Positions(w, h), MaxLit)}
            : w \in 1..MaxW, h \in 1..MaxH }

Thresholds == {0, 168, Bright, Bright + 1}

\* the size of the image handed to the encoder: the canvas, or another size, in
\* which case the library's resize() produced the canvas-sized image
SourceSizes(img) == {<<img.w, img.h>>, <<img.w + 1, img.h>>}

InitMono ==
    /\ page = MkImage(1, 1, {}) /\ src_size = <<1, 1>> /\ threshold = 0
    /\ encoder = "none" /\ blob = <<>>
    /\ page_blobs = <<>> /\ out_file = NoFile /\ result = "none"
    /\ png_dir = <<>> /\ xtc_out = NoOutput /\ ret = "none"
    /\ writer = NoWriter /\ pixel_values = <<>> /\ calls = 0 /\ prev_blob = <<>>
    /\ fs_working = <<>> /\ fs_result = <<>> /\ fs_pos = -1
    /\ fit_src = <<>> /\ fit_layout = NoLayout
    /\ xtcw_args = NoArgs /\ xtcw_ret = NoCall
    /\ QueueUnused /\ RetryUnused

\* what a call leaves behind
Encode(name, img, size, t, bytes) ==
    /\ page' = img /\ src_size' = size /\ threshold' = t
    /\ encoder' = name
    /\ blob' = bytes
    /\ prev_blob' = blob
    /\ calls' = 1
    /\ UNCHANGED <<writer, pixel_values, builderVars, pipelineVars, ditherVars, fitVars, xtcwVars, queueVars, retryVars>>

\* ConversionService.png_to_xtg_bytes(img, force_size=(w, h), threshold=t)
Call_png_to_xtg_bytes ==
    /\ encoder = "none" /\ writer = NoWriter
    /\ \E img \in Images : \E size \in SourceSizes(img) : \E t \in Thresholds :
          Encode("png_to_xtg_bytes", img, size, t, png_to_xtg_bytes(img, t))

\* ConversionService.png_to_xtg_file(png_path, xtg_out_path, force_size=(w, h), threshold=t)
Call_png_to_xtg_file ==
    /\ encoder = "none" /\ writer = NoWriter
    /\ \E img \in Images : \E size \in SourceSizes(img) : \E t \in Thresholds :
          Encode("png_to_xtg_file", img, size, t, png_to_xtg_file(img, t))

\* XTGWriter(width=w, height=h, threshold=t).encode(image)
Call_XTGWriter_encode ==
    /\ encoder = "none" /\ writer = NoWriter
    /\ \E img \in Images : \E size \in SourceSizes(img) : \E t \in Thresholds :
          Encode("XTGWriter.encode", img, size, t, XTGWriter_encode(img, t))

\* the encoder that was called is called once more with the same arguments
Call_mono_again ==
    /\ calls = 1 /\ writer = NoWriter
    /\ blob' = CASE encoder = "png_to_xtg_bytes" -> png_to_xtg_bytes(page, threshold)
                 [] encoder = "png_to_xtg_file" -> png_to_xtg_file(page, threshold)
                 [] encoder = "XTGWriter.encode" -> XTGWriter_encode(page, threshold)
    /\ prev_blob' = blob
    /\ calls' = 2
    /\ UNCHANGED <<page, src_size, threshold, encoder, writer, pixel_values,
                   builderVars, pipelineVars, ditherVars, fitVars, xtcwVars, queueVars, retryVars>>

NextMono ==
    \/ Call_png_to_xtg_bytes
    \/ Call_png_to_xtg_file
    \/ Call_XTGWriter_encode
    \/ Call_mono_again

SpecMono == InitMono /\ [][NextMono]_vars

Encoded == encoder # "none"

CeilDiv8(w) == IF w % 8 = 0 THEN w \div 8 ELSE (w \div 8) + 1

\* the packed bitmap: the last ceil(w/8) * h bytes of the blob
Payload == SubSeq(blob, Len(blob) - CeilDiv8(page.w) * page.h + 1, Len(blob))

\* the image a reader reconstructs from a payload of a w x h page
decode_mono(payload, w, h) ==
    [y \in 0..(h - 1) |-> [x \in 0..(w - 1) |->
        IF BitOf(payload[y * CeilDiv8(w) + (x \div 8) + 1], 7 - (x % 8)) = 1
        THEN 255 ELSE 0]]

\* C9: the payload bit at byte y * ceil(w/8) + x div 8, bit 7 - (x mod 8), is 1
\* iff pixel (x, y) >= t, so decoding the payload gives the image thresholded at
\* t; pixels [200, 50] with t = 168 give the payload byte 0b10000000.
C9_MonoBits ==
    Encoded =>
        /\ \A y \in 0..(page.h - 1) : \A x \in 0..(page.w - 1) :
              (BitOf(Payload[y * CeilDiv8(page.w) + (x \div 8) + 1], 7 - (x % 8)) = 1)
                  <=> (page.px[y][x] >= threshold)
        /\ decode_mono(Payload, page.w, page.h)
              = [y \in 0..(page.h - 1) |-> [x \in 0..(page.w - 1) |->
                    IF page.px[y][x] >= threshold THEN 255 ELSE 0]]
        /\ (page.w = 2 /\ page.h = 1 /\ page.px[0] = (0 :> 200 @@ 1 :> 50)
                /\ threshold = 168) => Payload = <<128>>

C9_Witness ==
    /\ Encoded /\ page.w = 2 /\ page.h = 1
    /\ page.px[0] = (0 :> 200 @@ 1 :> 50) /\ threshold = 168
    /\ Payload = <<128>>

\* C10: every mono blob, whichever encoder made it, begins with the 22-byte
\* header "XTG\0", width u16, height u16, 0, 0, payload length u32 (the number
\* of bytes that follow the header), first 8 bytes of the MD5 of the payload.
C10_MonoHeader ==
    Encoded =>
        /\ Len(blob) >= 22
        /\ SubSeq(blob, 1, 4) = <<88, 84, 71, 0>>
        /\ unpack_le(blob, 4, 2) = page.w
        /\ unpack_le(blob, 6, 2) = page.h
        /\ blob[9] = 0 /\ blob[10] = 0
        /\ unpack_le(blob, 10, 4) = Len(blob) - 22
        /\ SubSeq(blob, 15, 22) = SubSeq(md5(SubSeq(blob, 23, Len(blob))), 1, 8)

(***************************************************************************)
(* Gray page codec: XTHWriter (xtc_encoder.py)                             *)
(***************************************************************************)

XTH_MAGIC == 4740184               \* XTHWriter.MAGIC = 0x00485458
XTH_HEADER_SIZE == 22              \* XTHWriter.HEADER_SIZE

\* a gray image from its rows, rows[y + 1][x + 1] the pixel (x, y)
GrayImage(rows) ==
    [w |-> Len(rows[1]), h |-> Len(rows),
     px |-> [y \in 0..(Len(rows) - 1) |-> [x \in 0..(Len(rows[1]) - 1) |->
                rows[y + 1][x + 1]]]]

\* fault variant: a pixel equal to a threshold stays below it
flat_level_exclusive(v, thresholds) ==
    LET t1 == thresholds[1]
        t2 == thresholds[2]
        t3 == thresholds[3]
        r0 == 0
        r1 == IF v <= t1 THEN 0 ELSE r0
        r2 == IF v > t1 /\ v <= t2 THEN 1 ELSE r1
        r3 == IF v > t2 /\ v <= t3 THEN 2 ELSE r2
    IN  IF v > t3 THEN 3 ELSE r3
\* _convert_to_4level on one pixel: result starts at 0 and the four masked
\* assignments are applied in order
flat_level(v, thresholds) ==
    LET t1 == thresholds[1]
        t2 == thresholds[2]
        t3 == thresholds[3]
        r0 == 0
        r1 == IF v < t1 THEN 0 ELSE r0
        r2 == IF v >= t1 /\ v < t2 THEN 1 ELSE r1
        r3 == IF v >= t2 /\ v < t3 THEN 2 ELSE r2
    IN  IF v >= t3 THEN 3 ELSE r3

\* fault variant: the levels are passed through the plane remapping 1 <-> 2
convert_to_4level_remapped(image, thresholds) ==
    [y \in 0..(image.h - 1) |-> [x \in 0..(image.w - 1) |->
        <<0, 2, 1, 3>>[flat_level(image.px[y][x], thresholds) + 1]]]
\* _convert_to_4level(image): the level of every pixel, result[y][x]
convert_to_4level(image, thresholds) ==
    [y \in 0..(image.h - 1) |-> [x \in 0..(image.w - 1) |->
        flat_level(image.px[y][x], thresholds)]]

\* fault variant: levels 1 and 2 both mapped to 2
lut_map_merged(level) ==
    CASE level = 0 -> 0 [] level = 1 -> 2 [] level = 2 -> 2 [] level = 3 -> 3
      [] OTHER -> level
\* lut_map = {0: 0, 1: 2, 2: 1, 3: 3}; a value without an entry is kept
lut_map(level) ==
    CASE level = 0 -> 0 [] level = 1 -> 2 [] level = 2 -> 1 [] level = 3 -> 3
      [] OTHER -> level

\* mapped_values = 3 - mapped, in uint8
mapped_value(level) == (3 - lut_map(level)) % 256

\* fault variant: rows below the image are packed as pixels of level 0
RECURSIVE band_byte_padded(_, _, _, _, _, _)
band_byte_padded(pv, x, y, height, shift, i) ==
    IF i = 8 THEN 0
    ELSE BitOf(mapped_value(IF y + i < height THEN pv[y + i][x] ELSE 0), shift)
            * 2 ^ (7 - i)
         + band_byte_padded(pv, x, y, height, shift, i + 1)
\* the byte of one 8-row band of column x: row y + i goes to bit 7 - i, rows
\* at or below the image's height contribute nothing
RECURSIVE band_byte(_, _, _, _, _, _)
band_byte(pv, x, y, height, shift, i) ==
    IF i = 8 THEN 0
    ELSE (IF y + i < height
          THEN BitOf(mapped_value(pv[y + i][x]), shift) * 2 ^ (7 - i)
          ELSE 0)
         + band_byte(pv, x, y, height, shift, i + 1)

bands(height) == (height + 7) \div 8

\* fault variant: columns scanned left to right
plane_ltr(pv, width, height, shift) ==
    [k \in 1..(width * bands(height)) |->
        band_byte(pv, (k - 1) \div bands(height),
                  8 * ((k - 1) % bands(height)), height, shift, 0)]
\* one plane of _encode_bitplanes: for x from width-1 down to 0, for y in steps
\* of 8, one byte is appended; shift 1 is plane1 (bit1), shift 0 plane2 (bit2)
plane(pv, width, height, shift) ==
    [k \in 1..(width * bands(height)) |->
        band_byte(pv, width - 1 - ((k - 1) \div bands(height)),
                  8 * ((k - 1) % bands(height)), height, shift, 0)]

\* _encode_bitplanes: (bytes(plane1), bytes(plane2))
encode_bitplanes(pv, width, height) ==
    <<plane(pv, width, height, 1), plane(pv, width, height, 0)>>

RECURSIVE SumBytes(_, _)
SumBytes(s, n) == IF n = 0 THEN 0 ELSE s[n] + SumBytes(s, n - 1)

\* fault variant: the checksum is reduced to one byte
xth_blob_sum8(self, pv) ==
    LET planes == encode_bitplanes(pv, self.width, self.height)
        plane1 == planes[1]
        plane2 == planes[2]
        data_size == Len(plane1) + Len(plane2)
        checksum == (SumBytes(plane1, Len(plane1)) + SumBytes(plane2, Len(plane2))) % 256
    IN  pack_le(XTH_MAGIC, 4) \o pack_le(self.width, 2) \o pack_le(self.height, 2)
        \o pack_le(0, 1) \o pack_le(0, 1) \o pack_le(data_size, 4)
        \o pack_le(checksum, 8)
        \o plane1 \o plane2
\* XTHWriter.encode from the bitplane packing on: the header packed field by
\* field, then plane1, then plane2
xth_blob(self, pv) ==
    LET planes == encode_bitplanes(pv, self.width, self.height)
        plane1 == planes[1]
        plane2 == planes[2]
        data_size == Len(plane1) + Len(plane2)
        checksum == SumBytes(plane1, Len(plane1)) + SumBytes(plane2, Len(plane2))
    IN  pack_le(XTH_MAGIC, 4) \o pack_le(self.width, 2) \o pack_le(self.height, 2)
        \o pack_le(0, 1) \o pack_le(0, 1) \o pack_le(data_size, 4)
        \o pack_le(checksum, 8)
        \o plane1 \o plane2

\* working = image.astype(np.float32): the working values are kept in fixed
\* point, FixedOne units to 1.0, each update rounded down to a unit
FixedOne == 65536

\* dither_strength = 0.8, the constructor's default, as a fraction
dither_strength == <<4, 5>>

\* error * ((k/16) * self.dither_strength)
diffuse(error, k) == (error * (k * dither_strength[1])) \div (16 * dither_strength[2])

\* the 4-level quantization of one working value: an elif chain
fs_quantize(old_val, thresholds) ==
    IF old_val < thresholds[1] * FixedOne THEN [level |-> 0, new_val |-> 0]
    ELSE IF old_val < thresholds[2] * FixedOne THEN [level |-> 1, new_val |-> 120 * FixedOne]
    ELSE IF old_val < thresholds[3] * FixedOne THEN [level |-> 2, new_val |-> 170 * FixedOne]
    ELSE [level |-> 3, new_val |-> 255 * FixedOne]

\* fault variant: the edge tests on x are missing, so at the image's left and
\* right edge the share goes to the pixel next in memory
fs_diffuse_wrapping(width, height, working, p, error) ==
    LET y == p \div width
        w1 == IF p + 1 < width * height
              THEN [working EXCEPT ![p + 1] = @ + diffuse(error, 7)]
              ELSE working
        w2 == IF y + 1 < height
              THEN [w1 EXCEPT ![p + width - 1] = @ + diffuse(error, 3)]
              ELSE w1
        w3 == IF y + 1 < height
              THEN [w2 EXCEPT ![p + width] = @ + diffuse(error, 5)]
              ELSE w2
        w4 == IF y + 1 < height /\ p + width + 1 < width * height
              THEN [w3 EXCEPT ![p + width + 1] = @ + diffuse(error, 1)]
              ELSE w3
    IN  w4
\* the error distribution of one iteration, at pixel p = y * width + x
fs_diffuse(width, height, working, p, error) ==
    LET y == p \div width
        x == p % width
        w1 == IF x + 1 < width
              THEN [working EXCEPT ![p + 1] = @ + diffuse(error, 7)]
              ELSE working
        w2 == IF y + 1 < height /\ x > 0
              THEN [w1 EXCEPT ![p + width - 1] = @ + diffuse(error, 3)]
              ELSE w1
        w3 == IF y + 1 < height
              THEN [w2 EXCEPT ![p + width] = @ + diffuse(error, 5)]
              ELSE w2
        w4 == IF y + 1 < height /\ x + 1 < width
              THEN [w3 EXCEPT ![p + width + 1] = @ + diffuse(error, 1)]
              ELSE w3
    IN  w4

\* the loop of _floyd_steinberg_dither at pixel p = y * width + x; working and
\* res are indexed by p; old holds the old_val read at each pixel
RECURSIVE fs_loop(_, _, _, _, _, _, _)
fs_loop(width, height, thresholds, working, res, old, p) ==
    IF p = width * height THEN [result |-> res, old_vals |-> old]
    ELSE LET old_val == working[p]
             q == fs_quantize(old_val, thresholds)
             error == old_val - q.new_val
         IN  fs_loop(width, height, thresholds,
                     fs_diffuse(width, height, working, p, error),
                     [res EXCEPT ![p] = q.level], [old EXCEPT ![p] = old_val], p + 1)

fs_run(image, thresholds) ==
    fs_loop(image.w, image.h, thresholds,
            [p \in 0..(image.w * image.h - 1) |->
                image.px[p \div image.w][p % image.w] * FixedOne],
            [p \in 0..(image.w * image.h - 1) |-> 0],
            [p \in 0..(image.w * image.h - 1) |-> 0], 0)

\* _floyd_steinberg_dither(image): result[y][x]
floyd_steinberg_dither(image, thresholds) ==
    LET res == fs_run(image, thresholds).result
    IN  [y \in 0..(image.h - 1) |-> [x \in 0..(image.w - 1) |->
            res[y * image.w + x]]]

\* pixel_values in encode: dithering when self.dither, the flat quantization
\* otherwise
xth_levels(self, image) ==
    IF self.dither THEN floyd_steinberg_dither(image, self.thresholds)
    ELSE convert_to_4level(image, self.thresholds)

\* XTHWriter.encode(image), image already of the writer's size
XTHWriter_encode(self, image) == xth_blob(self, xth_levels(self, image))

(***************************************************************************)
(* SpecGray: an XTHWriter is constructed, encode is called on one image    *)
(* and then once more on the same image                                    *)
(***************************************************************************)

GrayMaxW == 2
GrayMaxH == 9
GrayMaxPixels == 2

\* pixel values on either side of the thresholds in use
GrayValues == {0, 84, 85, 128, 254, 255}
Backgrounds == {0, 128, 255}
OddValues == {85, 254}

\* a w x h image of value bg, with the pixels of odd set to value v
Speckled(w, h, bg, odd, v) ==
    [w |-> w, h |-> h,
     px |-> [y \in 0..(h - 1) |-> [x \in 0..(w - 1) |->
                IF <<x, y>> \in odd THEN v ELSE bg]]]

\* the w x h images encoded: every value 0..255 for a single pixel, every
\* image over GrayValues of at most GrayMaxPixels pixels, and beyond that a
\* background with at most one pixel of another value
GrayImages(w, h) ==
    IF w * h = 1 THEN {Speckled(1, 1, v, {}, v) : v \in 0..255}
    ELSE IF w * h <= GrayMaxPixels
    THEN {[w |-> w, h |-> h,
           px |-> [y \in 0..(h - 1) |-> [x \in 0..(w - 1) |-> f[<<x, y>>]]]]
            : f \in [Positions(w, h) -> GrayValues]}
    ELSE {Speckled(w, h, bg, odd, v) :
            bg \in Backgrounds, odd \in UpTo(Positions(w, h), 1), v \in OddValues}

ThresholdGrid == {85, 128, 170, 255}

\* thresholds the caller may pass: the default, other increasing triples, and
\* triples that are not strictly increasing
IncreasingThresholds ==
    {<<a, b, c>> : a \in ThresholdGrid, b \in ThresholdGrid, c \in ThresholdGrid}
        \cap {t \in ThresholdGrid \X ThresholdGrid \X ThresholdGrid :
                t[1] < t[2] /\ t[2] < t[3]}
DisorderedThresholds == {<<170, 85, 255>>, <<85, 85, 255>>, <<85, 255, 170>>}
ThresholdChoices(w, h) ==
    IF w * h = 1 THEN IncreasingThresholds \cup DisorderedThresholds
    ELSE {<<85, 170, 255>>, <<128, 170, 255>>, <<170, 85, 255>>}

InitGray ==
    /\ writer = NoWriter /\ pixel_values = <<>> /\ calls = 0 /\ prev_blob = <<>>
    /\ fs_working = <<>> /\ fs_result = <<>> /\ fs_pos = -1
    /\ fit_src = <<>> /\ fit_layout = NoLayout
    /\ xtcw_args = NoArgs /\ xtcw_ret = NoCall
    /\ QueueUnused /\ RetryUnused
    /\ page = MkImage(1, 1, {}) /\ src_size = <<1, 1>> /\ threshold = 0
    /\ encoder = "none" /\ blob = <<>>
    /\ page_blobs = <<>> /\ out_file = NoFile /\ result = "none"
    /\ png_dir = <<>> /\ xtc_out = NoOutput /\ ret = "none"

\* XTHWriter(width, height, thresholds, dither)
XTHWriter_init ==
    /\ writer = NoWriter /\ calls = 0
    /\ \E w \in 1..GrayMaxW : \E h \in 1..GrayMaxH :
       \E th \in ThresholdChoices(w, h) : \E d \in BOOLEAN :
          writer' = [width |-> w, height |-> h, thresholds |-> th, dither |-> d]
    /\ UNCHANGED <<pixel_values, calls, prev_blob, builderVars, monoVars, pipelineVars, ditherVars, fitVars, xtcwVars, queueVars, retryVars>>

\* fault variant: encode switches the writer's dithering off
writer_after_encode_mutating(self) == [self EXCEPT !.dither = FALSE]
\* the writer object after encode returned: encode assigns to no field of self
writer_after_encode(self) == self

\* writer.encode(image): image is the array after the resize of lines 176-180,
\* size the size of the array the caller passed
Call_XTHWriter_encode ==
    /\ writer # NoWriter /\ calls = 0
    /\ \E img \in GrayImages(writer.width, writer.height) :
       \E size \in SourceSizes(img) :
          /\ page' = img /\ src_size' = size
          /\ pixel_values' = xth_levels(writer, img)
          /\ blob' = XTHWriter_encode(writer, img)
    /\ encoder' = "XTHWriter.encode"
    /\ prev_blob' = blob
    /\ calls' = 1
    /\ writer' = writer_after_encode(writer)
    /\ UNCHANGED <<threshold, builderVars, pipelineVars, ditherVars, fitVars, xtcwVars, queueVars, retryVars>>

\* writer.encode(image) once more, on the same image
Call_XTHWriter_encode_again ==
    /\ writer # NoWriter /\ calls = 1
    /\ pixel_values' = xth_levels(writer, page)
    /\ blob' = XTHWriter_encode(writer, page)
    /\ prev_blob' = blob
    /\ calls' = 2
    /\ writer' = writer_after_encode(writer)
    /\ UNCHANGED <<page, src_size, threshold, encoder, builderVars, pipelineVars, ditherVars, fitVars, xtcwVars, queueVars, retryVars>>

NextGray ==
    \/ XTHWriter_init
    \/ Call_XTHWriter_encode
    \/ Call_XTHWriter_encode_again

SpecGray == InitGray /\ [][NextGray]_vars

GrayEncoded == writer # NoWriter /\ calls >= 1

(***************************************************************************)
(* SpecEncoders: any of the page encoders is called twice on one image     *)
(***************************************************************************)

SpecEncoders == InitGray /\ [][NextMono \/ NextGray]_vars

StrictlyIncreasing(t) == t[1] < t[2] /\ t[2] < t[3]

\* the number of thresholds the value equals or exceeds
ThresholdsMet(v, t) == Cardinality({i \in 1..3 : v >= t[i]})

\* C11: without dithering and with thresholds t1 < t2 < t3, the level of every
\* pixel (every value 0..255 occurs) is the number of thresholds the pixel
\* equals or exceeds.
C11_FlatQuantization ==
    (GrayEncoded /\ ~writer.dither /\ StrictlyIncreasing(writer.thresholds)) =>
        \A y \in 0..(page.h - 1) : \A x \in 0..(page.w - 1) :
            pixel_values[y][x] = ThresholdsMet(page.px[y][x], writer.thresholds)

C11_Witness ==
    /\ GrayEncoded /\ ~writer.dither /\ writer.thresholds = <<85, 170, 255>>
    /\ page.w = 1 /\ page.h = 1 /\ page.px[0][0] = 170
    /\ pixel_values[0][0] = 2

\* the gray payload: the bytes after the 22-byte header, and its two halves
GrayPayload == SubSeq(blob, XTH_HEADER_SIZE + 1, Len(blob))
PlaneLen == page.w * CeilDiv8(page.h)
Plane1 == SubSeq(GrayPayload, 1, PlaneLen)
Plane2 == SubSeq(GrayPayload, PlaneLen + 1, 2 * PlaneLen)

\* the value stored for level L: 3 - remap(L), remap = {0:0, 1:2, 2:1, 3:3}
FinalValue(L) == 3 - <<0, 2, 1, 3>>[L + 1]

\* where pixel (x, y) is stored: columns right to left, bands of 8 rows top
\* to bottom, the topmost row of a band in bit 7
PlaneByte(x, y) == (page.w - 1 - x) * CeilDiv8(page.h) + (y \div 8) + 1
PlaneBit(y) == 7 - (y % 8)

\* C12: a pixel of level L is stored as 3 - remap(L): its high bit in plane 1
\* and its low bit in plane 2, at the byte of column x (columns from width-1
\* down to 0) and band y div 8, bit 7 - (y mod 8); the payload is all of plane
\* 1 followed by all of plane 2.
C12_BitplanePacking ==
    GrayEncoded =>
        /\ Len(GrayPayload) = 2 * PlaneLen
        /\ \A y \in 0..(page.h - 1) : \A x \in 0..(page.w - 1) :
              /\ BitOf(Plane1[PlaneByte(x, y)], PlaneBit(y))
                    = (FinalValue(pixel_values[y][x]) \div 2) % 2
              /\ BitOf(Plane2[PlaneByte(x, y)], PlaneBit(y))
                    = FinalValue(pixel_values[y][x]) % 2

C12_Witness ==
    /\ GrayEncoded /\ page.w = 2 /\ page.h = 9
    /\ pixel_values[8][0] = 2 /\ pixel_values[0][1] = 1
    /\ Plane1[4] = 128 /\ Plane2[4] = 0 /\ Plane2[3] = 255

\* C13: when the writer's thresholds are not strictly increasing, encode
\* signals InvalidThresholds: it does not return and no blob is produced.
C13_InvalidThresholds ==
    (GrayEncoded /\ ~StrictlyIncreasing(writer.thresholds)) =>
        (encoder # "XTHWriter.encode" /\ blob = <<>>)

\* C14: every page blob convert_png_folder_to_xtc places into the container
\* records width 480 and height 800, whatever the size of the source image
\* and whichever of the two encodings was asked for.
C14_CanvasSize ==
    xtc_out.written =>
        \A k \in 1..Len(xtc_out.blobs) :
            xtc_out.blobs[k].w = 480 /\ xtc_out.blobs[k].h = 800

C14_Witness ==
    /\ xtc_out.written /\ Len(xtc_out.blobs) = 2
    /\ png_dir[1].size = <<300, 200>> /\ png_dir[2].size = <<480, 800>>
    /\ xtc_out.blobs[1].fmt = "XTG"
    /\ xtc_out.blobs[1].w = 480 /\ xtc_out.blobs[1].h = 800

\* img.resize(size, Image.BOX): the whole source image is mapped onto an image
\* of exactly the requested size, so the content is scaled by size[1]/src[1]
\* horizontally and by size[2]/src[2] vertically (each a pair num, den)
resize_scale(src, size) == [x |-> <<size[1], src[1]>>, y |-> <<size[2], src[2]>>]

\* the two scale factors are the same fraction
UniformScale(sc) == sc.x[1] * sc.y[2] = sc.y[1] * sc.x[2]

\* C15: when the size of the source image differs from the canvas, the
\* normalisation the encoder applies before encoding scales both axes by the
\* same factor: no encode path stretches the two axes independently.
C15_AspectPreserved ==
    (Encoded /\ src_size # <<page.w, page.h>>) =>
        UniformScale(resize_scale(src_size, <<page.w, page.h>>))

Uniform128 ==
    /\ GrayEncoded /\ ~writer.dither /\ writer.thresholds = <<85, 170, 255>>
    /\ \A y \in 0..(page.h - 1) : \A x \in 0..(page.w - 1) : page.px[y][x] = 128

\* C17 as stated: without dithering and with thresholds (85, 170, 255), a
\* uniform image of value 128 quantizes every pixel to level 2.
C17_Uniform128Level2 ==
    Uniform128 =>
        \A y \in 0..(page.h - 1) : \A x \in 0..(page.w - 1) : pixel_values[y][x] = 2

\* C17 amended: without dithering and with thresholds (85, 170, 255), a
\* uniform image of value 128 quantizes every pixel to level 1, 128 meeting
\* the first threshold only.
C17_Uniform128Level1 ==
    Uniform128 =>
        \A y \in 0..(page.h - 1) : \A x \in 0..(page.w - 1) : pixel_values[y][x] = 1

C17_Witness ==
    /\ Uniform128 /\ page.w = 2 /\ page.h = 3
    /\ pixel_values[2][1] = 1 /\ pixel_values[0][0] = 1

\* the bytes the mono encoder packed before the bitmap: "<4sHHBBI8s" is 22
\* bytes, XTGWriter's '<IHHBB8s' is 18
MonoHeaderLen == IF encoder = "XTGWriter.encode" THEN 18 ELSE 22
MonoPayload == SubSeq(blob, MonoHeaderLen + 1, Len(blob))

\* C18: the mono payload is exactly ceil(w/8) * h bytes, row y being the
\* ceil(w/8) bytes from y * ceil(w/8) on, and in the last byte of each row the
\* bits of the positions x >= w are 0.
C18_MonoRowPacking ==
    (Encoded /\ writer = NoWriter) =>
        /\ Len(MonoPayload) = CeilDiv8(page.w) * page.h
        /\ \A y \in 0..(page.h - 1) : \A x \in page.w..(8 * CeilDiv8(page.w) - 1) :
              BitOf(MonoPayload[y * CeilDiv8(page.w) + (x \div 8) + 1], 7 - (x % 8)) = 0
        /\ \A y \in 0..(page.h - 1) : \A x \in 0..(page.w - 1) :
              (BitOf(MonoPayload[y * CeilDiv8(page.w) + (x \div 8) + 1], 7 - (x % 8)) = 1)
                  <=> (page.px[y][x] >= threshold)

C18_Witness ==
    /\ Encoded /\ writer = NoWriter /\ page.w = 9 /\ page.h = 2 /\ threshold = 0
    /\ MonoPayload = <<255, 128, 255, 128>>

\* C19: each gray plane is exactly width * ceil(height/8) bytes; the header's
\* payload-length field is the sum of the two plane lengths and the number of
\* bytes after the 22-byte header; in a trailing partial band the bits of the
\* rows at or beyond height are 0 in both planes.
C19_GrayPayloadSize ==
    GrayEncoded =>
        /\ Len(Plane1) = page.w * CeilDiv8(page.h)
        /\ Len(Plane2) = page.w * CeilDiv8(page.h)
        /\ Plane1 \o Plane2 = GrayPayload
        /\ unpack_le(blob, 10, 4) = Len(Plane1) + Len(Plane2)
        /\ unpack_le(blob, 10, 4) = Len(blob) - 22
        /\ \A x \in 0..(page.w - 1) : \A y \in page.h..(8 * CeilDiv8(page.h) - 1) :
              /\ BitOf(Plane1[PlaneByte(x, y)], PlaneBit(y)) = 0
              /\ BitOf(Plane2[PlaneByte(x, y)], PlaneBit(y)) = 0

C19_Witness ==
    /\ GrayEncoded /\ page.w = 2 /\ page.h = 9
    /\ \A y \in 0..8 : \A x \in 0..1 : pixel_values[y][x] = 0
    /\ Plane1 = <<255, 128, 255, 128>> /\ Plane2 = <<255, 128, 255, 128>>
    /\ unpack_le(blob, 10, 4) = 8 /\ Len(blob) = 30

\* the level a reader recovers from the two plane bits of a pixel: the
\* inverse of L -> 3 - remap(L)
RecoveredLevel(bit1, bit2) == <<3, 1, 2, 0>>[2 * bit1 + bit2 + 1]

\* the values old_val the dithering read, in units of 1/FixedOne
WorkingValues == fs_run(page, writer.thresholds).old_vals

\* C20: every level handed to the bitplane packing, by the flat quantization
\* or by the dithering (whose working values may leave 0..255), is one of 0,
\* 1, 2, 3; the stored values 3 - remap(L) of the four levels are the four
\* values 0..3, and the inverse map applied to a pixel's two plane bits gives
\* back its level.
C20_LevelInvariant ==
    GrayEncoded =>
        /\ \A y \in 0..(page.h - 1) : \A x \in 0..(page.w - 1) :
              /\ pixel_values[y][x] \in 0..3
              /\ RecoveredLevel(BitOf(Plane1[PlaneByte(x, y)], PlaneBit(y)),
                                BitOf(Plane2[PlaneByte(x, y)], PlaneBit(y)))
                    = pixel_values[y][x]
        /\ {mapped_value(L) : L \in 0..3} = 0..3

C20_Witness ==
    /\ GrayEncoded /\ writer.dither /\ writer.thresholds = <<85, 170, 255>>
    /\ page.w = 2 /\ page.h = 1 /\ page.px[0][0] = 254 /\ page.px[0][1] = 255
    /\ WorkingValues[1] > 255 * FixedOne
    /\ pixel_values[0][0] = 2 /\ pixel_values[0][1] = 3

(***************************************************************************)
(* SpecDither: _floyd_steinberg_dither, one loop iteration per step        *)
(***************************************************************************)

DitherMaxW == 3
DitherMaxH == 3

\* the images dithered: a background with at most one pixel of another value
DitherImages ==
    UNION { {Speckled(w, h, bg, odd, v) :
                bg \in Backgrounds, odd \in UpTo(Positions(w, h), 1), v \in OddValues}
            : w \in 1..DitherMaxW, h \in 1..DitherMaxH }

DitherThresholds == {<<85, 170, 255>>, <<128, 170, 255>>, <<170, 85, 255>>}

InitDither ==
    /\ fs_working = <<>> /\ fs_result = <<>> /\ fs_pos = -1
    /\ fit_src = <<>> /\ fit_layout = NoLayout
    /\ xtcw_args = NoArgs /\ xtcw_ret = NoCall
    /\ QueueUnused /\ RetryUnused
    /\ writer = NoWriter /\ pixel_values = <<>> /\ calls = 0 /\ prev_blob = <<>>
    /\ page = MkImage(1, 1, {}) /\ src_size = <<1, 1>> /\ threshold = 0
    /\ encoder = "none" /\ blob = <<>>
    /\ page_blobs = <<>> /\ out_file = NoFile /\ result = "none"
    /\ png_dir = <<>> /\ xtc_out = NoOutput /\ ret = "none"

\* _floyd_steinberg_dither(image) is entered: working, result are set up
DitherEnter ==
    /\ fs_pos = -1
    /\ \E img \in DitherImages : \E th \in DitherThresholds :
          /\ page' = img
          /\ writer' = [width |-> img.w, height |-> img.h, thresholds |-> th,
                        dither |-> TRUE]
          /\ fs_working' = [p \in 0..(img.w * img.h - 1) |->
                              img.px[p \div img.w][p % img.w] * FixedOne]
          /\ fs_result' = [p \in 0..(img.w * img.h - 1) |-> 0]
    /\ fs_pos' = 0
    /\ UNCHANGED <<src_size, threshold, encoder, blob, pixel_values, calls, prev_blob,
                   builderVars, pipelineVars, fitVars, xtcwVars, queueVars, retryVars>>

\* one iteration of the loop body, at pixel fs_pos
DitherStep ==
    /\ fs_pos >= 0 /\ fs_pos < page.w * page.h
    /\ LET old_val == fs_working[fs_pos]
           q == fs_quantize(old_val, writer.thresholds)
           error == old_val - q.new_val
       IN  /\ fs_result' = [fs_result EXCEPT ![fs_pos] = q.level]
           /\ fs_working' = fs_diffuse(page.w, page.h, fs_working, fs_pos, error)
    /\ fs_pos' = fs_pos + 1
    /\ UNCHANGED <<monoVars, grayVars, builderVars, pipelineVars, fitVars, xtcwVars, queueVars, retryVars>>

NextDither == DitherEnter \/ DitherStep

SpecDither == InitDither /\ [][NextDither]_vars

\* the neighbours of pixel (x, y) that take a share of its error, each with
\* its weight in sixteenths: right, below-left, below, below-right, those
\* outside the image left out
SharingNeighbours(x, y) ==
    {n \in {<<x + 1, y, 7>>, <<x - 1, y + 1, 3>>, <<x, y + 1, 5>>, <<x + 1, y + 1, 1>>} :
        n[1] >= 0 /\ n[1] < page.w /\ n[2] < page.h}

\* what the iteration at pixel p with the given error adds to pixel q
ShareOf(p, q, error) ==
    LET ns == {n \in SharingNeighbours(p % page.w, p \div page.w) :
                  n[2] * page.w + n[1] = q}
    IN  IF ns = {} THEN 0 ELSE diffuse(error, (CHOOSE n \in ns : TRUE)[3])

\* C21: the dithering visits the pixels in row-major order; the iteration at a
\* pixel fixes its level from its working value, leaves every visited pixel's
\* level and working value (its own included) as they are, and adds to each
\* not-yet-visited pixel exactly its share of the error if it is the right,
\* below-left, below or below-right neighbour inside the image, nothing
\* otherwise: the share of a neighbour outside the image goes to nobody.
C21_DiffusionOrder ==
    [][ (fs_pos >= 0 /\ fs_pos' # fs_pos) =>
          LET p == fs_pos
              level == fs_quantize(fs_working[p], writer.thresholds)
              error == fs_working[p] - level.new_val
          IN  /\ fs_pos' = p + 1
              /\ fs_result'[p] = level.level
              /\ \A q \in 0..(p - 1) : fs_result'[q] = fs_result[q]
              /\ \A q \in 0..p : fs_working'[q] = fs_working[q]
              /\ \A q \in (p + 1)..(page.w * page.h - 1) :
                    fs_working'[q] = fs_working[q] + ShareOf(p, q, error)
      ]_vars

C21_Witness ==
    /\ fs_pos = 9 /\ page.w = 3 /\ page.h = 3
    /\ writer.thresholds = <<85, 170, 255>>
    /\ \A y \in 0..2 : \A x \in 0..2 : page.px[y][x] = 128
    /\ \A q \in 1..8 : fs_working[q] > 128 * FixedOne
    /\ fs_working[0] = 128 * FixedOne
    /\ fs_result = fs_run(page, writer.thresholds).result

(***************************************************************************)
(* ConversionService._floyd_steinberg_dither_4level                        *)
(***************************************************************************)

\* the 4-level quantization of ConversionService._floyd_steinberg_dither_4level
fs4level_quantize(old_val, thresholds) ==
    IF old_val < thresholds[1] * FixedOne THEN [level |-> 0, new_val |-> 0]
    ELSE IF old_val < thresholds[2] * FixedOne THEN [level |-> 1, new_val |-> 85 * FixedOne]
    ELSE IF old_val < thresholds[3] * FixedOne THEN [level |-> 2, new_val |-> 170 * FixedOne]
    ELSE [level |-> 3, new_val |-> 255 * FixedOne]

\* its error distribution, with dither_strength = 0.8 and the same weights
fs4level_diffuse(width, height, working, p, error) ==
    LET y == p \div width
        x == p % width
        w1 == IF x + 1 < width
              THEN [working EXCEPT ![p + 1] = @ + diffuse(error, 7)]
              ELSE working
        w2 == IF y + 1 < height /\ x > 0
              THEN [w1 EXCEPT ![p + width - 1] = @ + diffuse(error, 3)]
              ELSE w1
        w3 == IF y + 1 < height
              THEN [w2 EXCEPT ![p + width] = @ + diffuse(error, 5)]
              ELSE w2
        w4 == IF y + 1 < height /\ x + 1 < width
              THEN [w3 EXCEPT ![p + width + 1] = @ + diffuse(error, 1)]
              ELSE w3
    IN  w4

\* its loop; levels holds the level chosen at each pixel (a local the function
\* does not return)
RECURSIVE fs4level_loop(_, _, _, _, _, _)
fs4level_loop(width, height, thresholds, working, levels, p) ==
    IF p = width * height THEN [working |-> working, levels |-> levels]
    ELSE LET old_val == working[p]
             q == fs4level_quantize(old_val, thresholds)
             error == old_val - q.new_val
         IN  fs4level_loop(width, height, thresholds,
                           fs4level_diffuse(width, height, working, p, error),
                           [levels EXCEPT ![p] = q.level], p + 1)

\* the level _floyd_steinberg_dither_4level chooses at each pixel, [y][x]
floyd_steinberg_dither_4level_levels(image, thresholds) ==
    LET run == fs4level_loop(image.w, image.h, thresholds,
                   [p \in 0..(image.w * image.h - 1) |->
                       image.px[p \div image.w][p % image.w] * FixedOne],
                   [p \in 0..(image.w * image.h - 1) |-> 0], 0)
    IN  [y \in 0..(image.h - 1) |-> [x \in 0..(image.w - 1) |->
            run.levels[y * image.w + x]]]

\* C22: the two dithering implementations reconstruct each level with the
\* same value, so on every image and threshold triple the level
\* _floyd_steinberg_dither_4level chooses at a pixel is the level
\* XTHWriter._floyd_steinberg_dither chose there.
C22_SameDecisions ==
    (GrayEncoded /\ writer.dither) =>
        /\ \A v \in {0, 100, 150, 200, 255} :
              fs4level_quantize(v * FixedOne, writer.thresholds)
                  = fs_quantize(v * FixedOne, writer.thresholds)
        /\ floyd_steinberg_dither_4level_levels(page, writer.thresholds) = pixel_values

\* C23: the 8 bytes at offset 14 of a gray page blob, read as a little-endian
\* unsigned integer, are the sum of all payload bytes (plane 1 and plane 2);
\* the sum of a page's payload stays far below 2^64, so no reduction applies.
C23_GrayChecksum ==
    GrayEncoded =>
        /\ unpack_le(blob, 14, 8) = SumBytes(GrayPayload, Len(GrayPayload))
        /\ SubSeq(blob, 15, 22) = pack_le(SumBytes(Plane1, Len(Plane1))
                                          + SumBytes(Plane2, Len(Plane2)), 8)

C23_Witness ==
    /\ GrayEncoded /\ page.w = 2 /\ page.h = 9
    /\ \A y \in 0..8 : \A x \in 0..1 : pixel_values[y][x] = 0
    /\ SumBytes(GrayPayload, Len(GrayPayload)) = 1532
    /\ SubSeq(blob, 15, 22) = <<252, 5, 0, 0, 0, 0, 0, 0>>

(***************************************************************************)
(* SpecFitPad: convert_pdf_to_png_pure lays one page out on the canvas     *)
(***************************************************************************)

\* target_width, target_height = 480, 800
target_width == 480
target_height == 800

\* fault variant: a page smaller than the canvas is not enlarged
fit_pad_no_upscale(rect) ==
    LET wider == rect[1] * target_height > target_width * rect[2]
        fits == rect[1] <= target_width /\ rect[2] <= target_height
        render_width == IF fits THEN rect[1]
                        ELSE IF wider THEN target_width
                        ELSE (target_height * rect[1]) \div rect[2]
        render_height == IF fits THEN rect[2]
                         ELSE IF wider THEN (target_width * rect[2]) \div rect[1]
                         ELSE target_height
    IN  [render_width |-> render_width, render_height |-> render_height,
         zoom |-> <<render_width, rect[1]>>,
         paste_x |-> (target_width - render_width) \div 2,
         paste_y |-> (target_height - render_height) \div 2,
         canvas |-> <<target_width, target_height>>]
\* the layout of a page of size rect: pdf_ratio > target_ratio decides which
\* axis fills the canvas, int() truncates the other, the page is rendered with
\* zoom_x = zoom_y = render_width / rect.width (a pair num, den) and pasted
\* centred on a white target_width x target_height background
fit_pad(rect) ==
    LET wider == rect[1] * target_height > target_width * rect[2]
        render_width == IF wider THEN target_width
                        ELSE (target_height * rect[1]) \div rect[2]
        render_height == IF wider THEN (target_width * rect[2]) \div rect[1]
                         ELSE target_height
    IN  [render_width |-> render_width, render_height |-> render_height,
         zoom |-> <<render_width, rect[1]>>,
         paste_x |-> (target_width - render_width) \div 2,
         paste_y |-> (target_height - render_height) \div 2,
         canvas |-> <<target_width, target_height>>]

\* page widths and heights a document may have
PageSides == {100, 150, 200, 240, 300, 400, 480, 500, 600, 800, 1000, 1200}

InitFitPad ==
    /\ fit_src = <<>> /\ fit_layout = NoLayout
    /\ xtcw_args = NoArgs /\ xtcw_ret = NoCall
    /\ QueueUnused /\ RetryUnused
    /\ fs_working = <<>> /\ fs_result = <<>> /\ fs_pos = -1
    /\ writer = NoWriter /\ pixel_values = <<>> /\ calls = 0 /\ prev_blob = <<>>
    /\ page = MkImage(1, 1, {}) /\ src_size = <<1, 1>> /\ threshold = 0
    /\ encoder = "none" /\ blob = <<>>
    /\ page_blobs = <<>> /\ out_file = NoFile /\ result = "none"
    /\ png_dir = <<>> /\ xtc_out = NoOutput /\ ret = "none"

\* one iteration of the page loop, on a page of size rect
RenderPage ==
    /\ fit_src = <<>>
    /\ \E w \in PageSides : \E h \in PageSides :
          /\ fit_src' = <<w, h>>
          /\ fit_layout' = fit_pad(<<w, h>>)
    /\ UNCHANGED <<builderVars, monoVars, pipelineVars, grayVars, ditherVars, xtcwVars, queueVars, retryVars>>

SpecFitPad == InitFitPad /\ [][RenderPage]_vars

\* the page was rendered from a 300 x 200 source
ScenarioA == fit_src = <<300, 200>>

\* C24 as stated: a 300x200 source is placed on the 480x800 canvas unscaled,
\* at offsets (90, 300).
C24_UnscaledCentred ==
    ScenarioA =>
        /\ fit_layout.canvas = <<480, 800>>
        /\ fit_layout.render_width = 300 /\ fit_layout.render_height = 200
        /\ fit_layout.paste_x = 90 /\ fit_layout.paste_y = 300

\* C24 amended: a 300x200 source is scaled by 8/5 on both axes to 480x320 and
\* placed centred on the 480x800 canvas at offsets (0, 240); the rest of the
\* canvas is the background.
C24_ScaledCentred ==
    ScenarioA =>
        /\ fit_layout.canvas = <<480, 800>>
        /\ fit_layout.zoom[1] * 5 = fit_layout.zoom[2] * 8
        /\ fit_layout.render_width = 480 /\ fit_layout.render_height = 320
        /\ fit_layout.paste_x = 0 /\ fit_layout.paste_y = 240
        /\ fit_layout.paste_x + fit_layout.render_width <= 480
        /\ fit_layout.paste_y + fit_layout.render_height <= 800

C24_Witness ==
    /\ ScenarioA
    /\ fit_layout.render_width = 480 /\ fit_layout.render_height = 320
    /\ fit_layout.paste_y = 240

(***************************************************************************)
(* XTCWriter.write (xtc_encoder.py)                                        *)
(***************************************************************************)

XTCW_MAGIC == 4412504              \* XTCWriter.MAGIC = 0x00435458
XTCW_HEADER_SIZE == 48
XTCW_METADATA_SIZE == 256
XTCW_CHAPTER_SIZE == 96
XTCW_INDEX_ENTRY_SIZE == 16

RECURSIVE pack_fields(_, _, _)
pack_fields(widths, values, k) ==
    IF k = 0 THEN <<>>
    ELSE pack_fields(widths, values, k - 1) \o pack_le(values[k], widths[k])

\* struct.pack('<...', *values) for integer fields of the given byte widths:
\* struct.error unless there is exactly one value for each field and each
\* value fits its field
struct_pack(widths, values) ==
    IF Len(values) # Len(widths)
       \/ \E k \in 1..Len(widths) : ~FitsUnsigned(values[k], widths[k])
    THEN [raised |-> TRUE, bytes |-> <<>>]
    ELSE [raised |-> FALSE, bytes |-> pack_fields(widths, values, Len(widths))]

\* the header: format '<IHHBBBBBIQQQ' (twelve fields) and the eleven values
\* passed with it
xtcw_header(page_count, reading_direction, has_metadata, has_chapters, metadata_offset, xtcw_index_offset, xtcw_data_offset) ==
    struct_pack(<<4, 2, 2, 1, 1, 1, 1, 1, 4, 8, 8, 8>>,
                <<XTCW_MAGIC, XTC_VERSION, page_count, reading_direction,
                  IF has_metadata THEN 1 ELSE 0, 0, IF has_chapters THEN 1 ELSE 0, 0,
                  metadata_offset, xtcw_index_offset, xtcw_data_offset>>)

\* page_offsets[k]: current_offset before page k is added
xtcw_page_offset(pages, start, k) == start + SumLen(pages, k - 1)

\* the index table: struct.pack('<IQ', i, offset) for each page
xtcw_index(pages, start) ==
    Concat([k \in 1..Len(pages) |->
        pack_le(k - 1, 4) \o pack_le(xtcw_page_offset(pages, start, k), 8)])

\* struct.pack('<128s64s32s8sQHH', ...) of a default XTCMetadata with empty
\* title, author and publisher: language "zh-CN", create_time 0, cover_page
\* 0xFFFF, chapter_count 0
xtcw_metadata ==
    Zeros(128) \o Zeros(64) \o Zeros(32) \o pack_s(<<122, 104, 45, 67, 78>>, 8)
    \o pack_le(0, 8) \o pack_le(U16Max, 2) \o pack_le(0, 2)

\* struct.pack('<80sHH', name_padded, start_page, end_page) of a chapter with
\* an empty name covering page 0
xtcw_chapter == Zeros(80) \o pack_le(0, 2) \o pack_le(0, 2)

\* XTCWriter.write(pages, metadata, chapters)
XTCWriter_write(pages, has_metadata, n_chapters, reading_direction) ==
    LET page_count == Len(pages)
        has_chapters == n_chapters > 0
        xtcw_index_offset == XTCW_HEADER_SIZE
        d0 == xtcw_index_offset + XTCW_INDEX_ENTRY_SIZE * page_count
        metadata_offset == IF has_metadata THEN d0 ELSE 0
        d1 == IF has_metadata THEN d0 + XTCW_METADATA_SIZE ELSE d0
        xtcw_data_offset == IF has_chapters THEN d1 + XTCW_CHAPTER_SIZE * n_chapters ELSE d1
        header == xtcw_header(page_count, reading_direction, has_metadata, has_chapters,
                              metadata_offset, xtcw_index_offset, xtcw_data_offset)
    IN  IF header.raised THEN [called |-> TRUE, raised |-> TRUE, bytes |-> <<>>]
        ELSE [called |-> TRUE, raised |-> FALSE,
              bytes |-> header.bytes
                        \o xtcw_index(pages, xtcw_data_offset)
                        \o (IF has_metadata THEN xtcw_metadata ELSE <<>>)
                        \o Concat([k \in 1..n_chapters |-> xtcw_chapter])
                        \o Concat(pages)]

(***************************************************************************)
(* SpecXTCWriter: the caller assembles a page list and calls               *)
(* XTCWriter.write once                                                    *)
(***************************************************************************)

MaxChapters == 2

InitXTCWriter ==
    /\ xtcw_args = NoArgs /\ xtcw_ret = NoCall
    /\ QueueUnused /\ RetryUnused
    /\ fit_src = <<>> /\ fit_layout = NoLayout
    /\ fs_working = <<>> /\ fs_result = <<>> /\ fs_pos = -1
    /\ writer = NoWriter /\ pixel_values = <<>> /\ calls = 0 /\ prev_blob = <<>>
    /\ page = MkImage(1, 1, {}) /\ src_size = <<1, 1>> /\ threshold = 0
    /\ encoder = "none" /\ blob = <<>>
    /\ page_blobs = <<>> /\ out_file = NoFile /\ result = "none"
    /\ png_dir = <<>> /\ xtc_out = NoOutput /\ ret = "none"

\* the caller appends one more page to the list it will pass
AppendPage(b) ==
    /\ ~xtcw_ret.called
    /\ Len(page_blobs) < MaxPages
    /\ page_blobs' = Append(page_blobs, b)
    /\ UNCHANGED <<out_file, result, monoVars, pipelineVars, grayVars, ditherVars,
                   fitVars, xtcwVars, queueVars, retryVars>>

\* XTCWriter(reading_direction=rd).write(page_blobs, metadata, chapters)
Call_XTCWriter_write(has_metadata, n_chapters, rd) ==
    /\ ~xtcw_ret.called
    /\ xtcw_args' = [metadata |-> has_metadata, chapters |-> n_chapters]
    /\ xtcw_ret' = XTCWriter_write(page_blobs, has_metadata, n_chapters, rd)
    /\ UNCHANGED <<builderVars, monoVars, pipelineVars, grayVars, ditherVars, fitVars, queueVars, retryVars>>

NextXTCWriter ==
    \/ \E b \in BlobChoices : AppendPage(b)
    \/ \E m \in BOOLEAN : \E c \in 0..MaxChapters : \E rd \in ReadDirections :
          Call_XTCWriter_write(m, c, rd)

SpecXTCWriter == InitXTCWriter /\ [][NextXTCWriter]_vars

\* C25: XTCWriter.write returns a container whose header records dataOffset =
\* 48 + 16 * pageCount + 256 if metadata is present + 96 * number of
\* chapters, and every page begins at the offset computed for it from that
\* dataOffset, the first page exactly at dataOffset.
C25_WriterDataOffset ==
    xtcw_ret.called =>
        /\ ~xtcw_ret.raised
        /\ hdr_dataOffset(xtcw_ret.bytes)
              = 48 + 16 * Len(page_blobs)
                + (IF xtcw_args.metadata THEN 256 ELSE 0) + 96 * xtcw_args.chapters
        /\ \A k \in 1..Len(page_blobs) :
              LET at == hdr_dataOffset(xtcw_ret.bytes) + SumLen(page_blobs, k - 1)
              IN  SubSeq(xtcw_ret.bytes, at + 1, at + Len(page_blobs[k])) = page_blobs[k]


(***************************************************************************)
(* SpecQueue: the transfer queue.  data/queue.json is read and rewritten   *)
(* as a whole by three threads of the web server process, none of which    *)
(* takes a lock: the Flask request thread (web_server.py), the FastMCP     *)
(* server thread (mcp/mcp_server.py) and the background transfer worker.   *)
(* A handler is cut into steps at its reads and writes of the queue file;  *)
(* a thread's record holds the handler's locals between two steps.         *)
(*                                                                         *)
(* A queue item is [id, path, status]; the other keys of the dictionaries  *)
(* (name, size, upload_time, message, target_dir) are never read by the    *)
(* code that moves items through the queue.  A path is <<directory, id>>:  *)
(* every upload gets a file name made from a fresh uuid4.                  *)
(***************************************************************************)
MaxItems == 2
MaxOps == 3

Threads == {"worker", "web", "mcp"}

pending_dir == "pending_books"
NOTES_DIR == "notes"
Paths == {pending_dir, NOTES_DIR} \X (1..MaxItems)

NoItem == [id |-> 0, path |-> <<"", 0>>, status |-> ""]
Idle == [pc |-> "idle", queue |-> <<>>, books |-> <<>>, items |-> <<>>,
         item |-> NoItem, status |-> "", count |-> 0]

\* the dictionary that upload_file and upload_content append
queue_item(file_id, dir) == [id |-> file_id, path |-> <<dir, file_id>>, status |-> "pending"]

ids_of(queue) == {queue[i].id : i \in DOMAIN queue}

\* the loop of update_queue_status: the first item with the id gets the status
set_status(queue, item_id, status) ==
    [i \in DOMAIN queue |->
        IF queue[i].id = item_id /\ \A j \in 1..(i - 1) : queue[j].id # item_id
        THEN [queue[i] EXCEPT !.status = status]
        ELSE queue[i]]

\* get_queue_items: the items of the queue whose status is 'pending'
pending_items(queue) ==
    LET is_pending(item) == item.status = "pending"
    IN  SelectSeq(queue, is_pending)

\* the loop of get_queue: an item whose file does not exist becomes 'missing'
mark_missing(queue, existing) ==
    [i \in DOMAIN queue |->
        IF queue[i].path \notin existing
        THEN [queue[i] EXCEPT !.status = "missing"]
        ELSE queue[i]]

\* the loop of update_queue_after_transfer: items whose file exists are kept
keep_existing(queue, existing) ==
    LET exists(item) == item.path \in existing
    IN  SelectSeq(queue, exists)

\* the loop of remove_from_queue: every item but the one with the id
without_item(queue, item_id) ==
    LET other(item) == item.id # item_id
    IN  SelectSeq(queue, other)

RECURSIVE in_order(_)
in_order(S) ==
    IF S = {} THEN <<>>
    ELSE LET p == CHOOSE p \in S : \A q \in S : p[2] <= q[2]
         IN  <<p>> \o in_order(S \ {p})

\* get_pending_books: the files under pending_dir whose suffix is supported
get_pending_books(existing, supported) ==
    IF supported THEN in_order({p \in existing : p[1] = pending_dir}) ELSE <<>>

InitQueue ==
    /\ queue_file = <<>> /\ files = {}
    /\ uploads = [p \in Paths |-> 0]
    /\ thread = [t \in Threads |-> Idle]
    /\ next_id = 1 /\ appended = {} /\ removed = {}
    /\ books_supported \in BOOLEAN
    /\ refused = FALSE /\ ops = 0
    /\ RetryUnused
    /\ xtcw_args = NoArgs /\ xtcw_ret = NoCall
    /\ fit_src = <<>> /\ fit_layout = NoLayout
    /\ fs_working = <<>> /\ fs_result = <<>> /\ fs_pos = -1
    /\ writer = NoWriter /\ pixel_values = <<>> /\ calls = 0 /\ prev_blob = <<>>
    /\ page = MkImage(1, 1, {}) /\ src_size = <<1, 1>> /\ threshold = 0
    /\ encoder = "none" /\ blob = <<>>
    /\ page_blobs = <<>> /\ out_file = NoFile /\ result = "none"
    /\ png_dir = <<>> /\ xtc_out = NoOutput /\ ret = "none"

codecVars == <<builderVars, monoVars, pipelineVars, grayVars, ditherVars, fitVars,
               xtcwVars, retryVars>>

\* a thread starts serving a request, a tool call or a worker round
Starts(t) ==
    /\ thread[t].pc = "idle"
    /\ ops < MaxOps
    /\ ops' = ops + 1

\* /api/upload without conversion: save the file, build the item, load_queue()
web_upload_file_load(t) ==
    /\ t = "web" /\ Starts(t)
    /\ next_id <= MaxItems
    /\ files' = files \cup {<<pending_dir, next_id>>}
    /\ thread' = [thread EXCEPT ![t] = [Idle EXCEPT !.pc = "upload_file_save",
                     !.queue = queue_file, !.item = queue_item(next_id, pending_dir)]]
    /\ next_id' = next_id + 1
    /\ UNCHANGED <<queue_file, uploads, appended, removed, books_supported, refused,
                   codecVars>>

\* queue.append(queue_item); save_queue(queue)
web_upload_file_save(t) ==
    /\ thread[t].pc = "upload_file_save"
    /\ queue_file' = Append(thread[t].queue, thread[t].item)
    /\ appended' = appended \cup {thread[t].item.id}
    /\ thread' = [thread EXCEPT ![t] = Idle]
    /\ UNCHANGED <<files, uploads, next_id, removed, books_supported, refused, ops,
                   codecVars>>

\* the MCP tool upload_content: write the note, build the item, load_queue()
upload_content_load(t) ==
    /\ t = "mcp" /\ Starts(t)
    /\ next_id <= MaxItems
    /\ files' = files \cup {<<NOTES_DIR, next_id>>}
    /\ thread' = [thread EXCEPT ![t] = [Idle EXCEPT !.pc = "upload_content_save",
                     !.queue = queue_file, !.item = queue_item(next_id, NOTES_DIR)]]
    /\ next_id' = next_id + 1
    /\ UNCHANGED <<queue_file, uploads, appended, removed, books_supported, refused,
                   codecVars>>

\* queue.append(queue_item); save_queue(queue)
upload_content_save(t) ==
    /\ thread[t].pc = "upload_content_save"
    /\ queue_file' = Append(thread[t].queue, thread[t].item)
    /\ appended' = appended \cup {thread[t].item.id}
    /\ thread' = [thread EXCEPT ![t] = Idle]
    /\ UNCHANGED <<files, uploads, next_id, removed, books_supported, refused, ops,
                   codecVars>>

\* GET /api/queue: load_queue()
get_queue_load(t) ==
    /\ t = "web" /\ Starts(t)
    /\ thread' = [thread EXCEPT ![t] = [Idle EXCEPT !.pc = "get_queue_save",
                     !.queue = queue_file]]
    /\ UNCHANGED <<queue_file, files, uploads, next_id, appended, removed,
                   books_supported, refused, codecVars>>

\* the exists() loop and save_queue(updated_queue)
get_queue_save(t) ==
    /\ thread[t].pc = "get_queue_save"
    /\ queue_file' = mark_missing(thread[t].queue, files)
    /\ thread' = [thread EXCEPT ![t] = Idle]
    /\ UNCHANGED <<files, uploads, next_id, appended, removed, books_supported,
                   refused, ops, codecVars>>

\* DELETE /api/queue/<item_id>: load_queue(), unlink the item's file;
\* 404 and no save when no item has the id
remove_from_queue_load(t, item_id) ==
    /\ t = "web" /\ Starts(t)
    /\ files' = files \ {queue_file[i].path : i \in {j \in DOMAIN queue_file :
                                                      queue_file[j].id = item_id}}
    /\ thread' = [thread EXCEPT ![t] =
                     IF item_id \in ids_of(queue_file)
                     THEN [Idle EXCEPT !.pc = "remove_from_queue_save",
                                       !.queue = without_item(queue_file, item_id),
                                       !.item = [NoItem EXCEPT !.id = item_id]]
                     ELSE Idle]
    /\ UNCHANGED <<queue_file, uploads, next_id, appended, removed, books_supported,
                   refused, codecVars>>

\* save_queue(new_queue)
remove_from_queue_save(t) ==
    /\ thread[t].pc = "remove_from_queue_save"
    /\ queue_file' = thread[t].queue
    /\ removed' = removed \cup {thread[t].item.id}
    /\ thread' = [thread EXCEPT ![t] = Idle]
    /\ UNCHANGED <<files, uploads, next_id, appended, books_supported, refused, ops,
                   codecVars>>

\* DELETE /api/queue: load_queue(), unlink every item's file
clear_queue_load(t) ==
    /\ t = "web" /\ Starts(t)
    /\ files' = files \ {queue_file[i].path : i \in DOMAIN queue_file}
    /\ thread' = [thread EXCEPT ![t] = [Idle EXCEPT !.pc = "clear_queue_save"]]
    /\ UNCHANGED <<queue_file, uploads, next_id, appended, removed, books_supported,
                   refused, codecVars>>

\* save_queue([]): whatever the file holds by now is cleared
clear_queue_save(t) ==
    /\ thread[t].pc = "clear_queue_save"
    /\ queue_file' = <<>>
    /\ removed' = removed \cup ids_of(queue_file)
    /\ thread' = [thread EXCEPT ![t] = Idle]
    /\ UNCHANGED <<files, uploads, next_id, appended, books_supported, refused, ops,
                   codecVars>>

\* run_once up to the directory listing of transfer_pending_books; connected is
\* what check_device_connection and setup_device_directories found.  The
\* worker, /api/device/status and /api/transfer/start all call run_once on the
\* one BookTransferService object.
run_once_start(t, connected) ==
    /\ t \in {"worker", "web"} /\ Starts(t)
    /\ thread' = [thread EXCEPT ![t] =
                     IF connected
                     THEN [Idle EXCEPT !.pc = "books",
                                       !.books = get_pending_books(files, books_supported)]
                     ELSE Idle]
    /\ UNCHANGED <<queue_file, files, uploads, next_id, appended, removed,
                   books_supported, refused, codecVars>>

\* one round of the loop of transfer_pending_books: upload_file(book_path, books_dir)
\* returned ok, and the file is unlinked when it did.  upload_file cannot
\* open a file that is gone, and then returns False.
transfer_pending_books_step(t, ok) ==
    /\ thread[t].pc = "books" /\ thread[t].books # <<>>
    /\ LET book_path == Head(thread[t].books)
       IN  /\ ok => book_path \in files
           /\ uploads' = IF ok THEN [uploads EXCEPT ![book_path] = @ + 1] ELSE uploads
           /\ files' = IF ok THEN files \ {book_path} ELSE files
           /\ refused' = (refused \/ (~ok /\ book_path \in files))
           /\ thread' = [thread EXCEPT ![t].books = Tail(@),
                                       ![t].count = IF ok THEN @ + 1 ELSE @]
    /\ UNCHANGED <<queue_file, next_id, appended, removed, books_supported, ops,
                   codecVars>>

\* transfer_queue_items reads the queue: get_queue_items()
get_queue_items(t) ==
    /\ thread[t].pc = "books" /\ thread[t].books = <<>>
    /\ thread' = [thread EXCEPT ![t].pc = "items",
                                ![t].items = pending_items(queue_file)]
    /\ UNCHANGED <<queue_file, files, uploads, next_id, appended, removed,
                   books_supported, refused, ops, codecVars>>

\* one round of the loop of transfer_queue_items up to its update_queue_status
\* call: 'failed' when the file does not exist or upload_file returned False,
\* 'completed' when it returned True
transfer_queue_items_step(t, ok) ==
    /\ thread[t].pc = "items" /\ thread[t].items # <<>>
    /\ LET item == Head(thread[t].items)
       IN  /\ ok => item.path \in files
           /\ uploads' = IF ok THEN [uploads EXCEPT ![item.path] = @ + 1] ELSE uploads
           /\ refused' = (refused \/ (~ok /\ item.path \in files))
           /\ thread' = [thread EXCEPT ![t].pc = "update_queue_status",
                                       ![t].item = item,
                                       ![t].status = IF ok THEN "completed" ELSE "failed",
                                       ![t].count = IF ok THEN @ + 1 ELSE @]
    /\ UNCHANGED <<queue_file, files, next_id, appended, removed, books_supported, ops,
                   codecVars>>

\* update_queue_status: json.load of the queue file
update_queue_status_load(t) ==
    /\ thread[t].pc = "update_queue_status"
    /\ thread' = [thread EXCEPT ![t].pc = "update_queue_status_save",
                                ![t].queue = queue_file]
    /\ UNCHANGED <<queue_file, files, uploads, next_id, appended, removed,
                   books_supported, refused, ops, codecVars>>

\* update_queue_status: the loop and json.dump; back in transfer_queue_items the
\* file is unlinked after a successful upload
update_queue_status_save(t) ==
    /\ thread[t].pc = "update_queue_status_save"
    /\ queue_file' = set_status(thread[t].queue, thread[t].item.id, thread[t].status)
    /\ files' = IF thread[t].status = "completed"
                THEN files \ {thread[t].item.path} ELSE files
    /\ thread' = [thread EXCEPT ![t].pc = "items", ![t].items = Tail(@),
                                ![t].queue = <<>>, ![t].item = NoItem, ![t].status = ""]
    /\ UNCHANGED <<uploads, next_id, appended, removed, books_supported, refused, ops,
                   codecVars>>

\* run_once returns; the worker goes on to update_queue_after_transfer when
\* something was transferred
run_once_return(t) ==
    /\ thread[t].pc = "items" /\ thread[t].items = <<>>
    /\ thread' = [thread EXCEPT ![t] =
                     IF t = "worker" /\ thread[t].count > 0
                     THEN [Idle EXCEPT !.pc = "update_queue_after_transfer"]
                     ELSE Idle]
    /\ UNCHANGED <<queue_file, files, uploads, next_id, appended, removed,
                   books_supported, refused, ops, codecVars>>

\* update_queue_after_transfer: load_queue()
update_queue_after_transfer_load(t) ==
    /\ thread[t].pc = "update_queue_after_transfer"
    /\ thread' = [thread EXCEPT ![t].pc = "update_queue_after_transfer_save",
                                ![t].queue = queue_file]
    /\ UNCHANGED <<queue_file, files, uploads, next_id, appended, removed,
                   books_supported, refused, ops, codecVars>>

\* the exists() loop and save_queue(updated_queue)
update_queue_after_transfer_save(t) ==
    /\ thread[t].pc = "update_queue_after_transfer_save"
    /\ queue_file' = keep_existing(thread[t].queue, files)
    /\ removed' = removed \cup (ids_of(thread[t].queue) \ ids_of(queue_file'))
    /\ thread' = [thread EXCEPT ![t] = Idle]
    /\ UNCHANGED <<files, uploads, next_id, appended, books_supported, refused, ops,
                   codecVars>>

NextQueue ==
    \E t \in Threads :
        \/ web_upload_file_load(t)
        \/ web_upload_file_save(t)
        \/ upload_content_load(t)
        \/ upload_content_save(t)
        \/ get_queue_load(t)
        \/ get_queue_save(t)
        \/ \E item_id \in 1..MaxItems : remove_from_queue_load(t, item_id)
        \/ remove_from_queue_save(t)
        \/ clear_queue_load(t)
        \/ clear_queue_save(t)
        \/ \E connected \in BOOLEAN : run_once_start(t, connected)
        \/ \E ok \in BOOLEAN : transfer_pending_books_step(t, ok)
        \/ get_queue_items(t)
        \/ \E ok \in BOOLEAN : transfer_queue_items_step(t, ok)
        \/ update_queue_status_load(t)
        \/ update_queue_status_save(t)
        \/ run_once_return(t)
        \/ update_queue_after_transfer_load(t)
        \/ update_queue_after_transfer_save(t)

SpecQueue == InitQueue /\ [][NextQueue]_vars

\* C26: every item whose append has been saved is in the queue file until a
\* delete, a clear or the post-transfer clean-up removes it, whatever the
\* other threads load and rewrite meanwhile.
C26_NoItemLost == (appended \ removed) \subseteq ids_of(queue_file)


\* the files of the queue have only been removed by transfers: no delete or
\* clear request has unlinked one
OnlyTransfersUnlink ==
    /\ removed = {}
    /\ \A t \in DOMAIN thread :
          thread[t].pc \notin {"remove_from_queue_save", "clear_queue_save"}

\* C27: while the device answers every POST with 200, the queue item of a file
\* that /api/upload saved unconverted into the pending-books directory is never
\* 'failed', and once it is 'completed' the file has been uploaded exactly once.
C27_UploadedOnceCompleted ==
    (~refused /\ OnlyTransfersUnlink) =>
        \A i \in DOMAIN queue_file :
            LET item == queue_file[i]
            IN  item.path[1] = pending_dir =>
                    /\ item.status # "failed"
                    /\ item.status = "completed" => uploads[item.path] = 1

\* C28: a step that leaves an item in the queue file leaves its status alone
\* when that status is 'completed'.
C28_CompletedStays ==
    [][\A i \in DOMAIN queue_file :
          queue_file[i].status = "completed" =>
              \A j \in DOMAIN queue_file' :
                  queue_file'[j].id = queue_file[i].id =>
                      queue_file'[j].status = "completed"]_vars

\* C29: no file of the queue is accepted by the device more than once,
\* whichever threads run run_once and however their steps interleave.
C29_UploadedAtMostOnce == \A p \in DOMAIN uploads : uploads[p] <= 1


(***************************************************************************)
(* SpecUpload: the retry loop of BookTransferService.upload_file.  One     *)
(* step is one round of "for attempt in range(max_retries)": the file is   *)
(* opened and posted to the device, and the round ends with an answer or   *)
(* with an exception.  attempt is the value the loop variable has in the   *)
(* round that comes next.                                                  *)
(***************************************************************************)
MaxRetries == 4

\* how a round can end: the status code of the answer, an exception raised by
\* session.post, or an exception raised by open() before anything is posted
Outcomes == {"200", "non-200", "post raised", "open raised"}

\* the rounds in which a POST was sent
posts(rounds) == {i \in DOMAIN rounds : rounds[i] # "open raised"}

\* fault variant: a 200 is treated like any other answer and the loop goes on
after_attempt_ignoring_200(retries, k, outcome) ==
    IF k < retries - 1
    THEN [ret |-> "running", attempt |-> k + 1]
    ELSE [ret |-> "False", attempt |-> k]

\* the end of round k: return True on 200; otherwise sleep and go round again
\* while attempt < max_retries - 1, else return False
after_attempt(retries, k, outcome) ==
    IF outcome = "200"
    THEN [ret |-> "True", attempt |-> k]
    ELSE IF k < retries - 1
         THEN [ret |-> "running", attempt |-> k + 1]
         ELSE [ret |-> "False", attempt |-> k]

InitUpload ==
    /\ max_retries \in 0..MaxRetries
    /\ attempt = 0 /\ responses = <<>> /\ upload_ret = "none"
    /\ QueueUnused
    /\ xtcw_args = NoArgs /\ xtcw_ret = NoCall
    /\ fit_src = <<>> /\ fit_layout = NoLayout
    /\ fs_working = <<>> /\ fs_result = <<>> /\ fs_pos = -1
    /\ writer = NoWriter /\ pixel_values = <<>> /\ calls = 0 /\ prev_blob = <<>>
    /\ page = MkImage(1, 1, {}) /\ src_size = <<1, 1>> /\ threshold = 0
    /\ encoder = "none" /\ blob = <<>>
    /\ page_blobs = <<>> /\ out_file = NoFile /\ result = "none"
    /\ png_dir = <<>> /\ xtc_out = NoOutput /\ ret = "none"

\* upload_file(file_path, target_dir) is called and reads the configuration
Call_upload_file ==
    /\ upload_ret = "none"
    /\ upload_ret' = "running"
    /\ UNCHANGED <<max_retries, attempt, responses, builderVars, monoVars, pipelineVars,
                   grayVars, ditherVars, fitVars, xtcwVars, queueVars>>

\* one round of the loop
upload_file_attempt(outcome) ==
    /\ upload_ret = "running"
    /\ attempt < max_retries
    /\ responses' = Append(responses, outcome)
    /\ upload_ret' = after_attempt(max_retries, attempt, outcome).ret
    /\ attempt' = after_attempt(max_retries, attempt, outcome).attempt
    /\ UNCHANGED <<max_retries, builderVars, monoVars, pipelineVars, grayVars,
                   ditherVars, fitVars, xtcwVars, queueVars>>

\* range(max_retries) is empty: the return False after the loop
upload_file_no_round ==
    /\ upload_ret = "running"
    /\ attempt >= max_retries
    /\ upload_ret' = "False"
    /\ UNCHANGED <<max_retries, attempt, responses, builderVars, monoVars, pipelineVars,
                   grayVars, ditherVars, fitVars, xtcwVars, queueVars>>

NextUpload ==
    \/ Call_upload_file
    \/ \E outcome \in Outcomes : upload_file_attempt(outcome)
    \/ upload_file_no_round

\* Every round ends: the statements of the loop body run one after the other
\* and each request made of the device comes back as an answer or as an
\* exception, so the call keeps taking steps while it has one to take.
SpecUpload == InitUpload /\ [][NextUpload]_vars /\ WF_vars(NextUpload)

upload_returned == upload_ret \in {"True", "False"}

C30_Rounds ==
    /\ Len(responses) <= max_retries
    /\ Cardinality(posts(responses)) <= max_retries
    /\ \A i \in 1..(Len(responses) - 1) : responses[i] # "200"
    /\ upload_ret = "True" <=> (responses # <<>> /\ responses[Len(responses)] = "200")
    /\ upload_ret = "False" =>
          /\ Len(responses) = max_retries
          /\ \A i \in DOMAIN responses : responses[i] # "200"

====
